---------------------------- MODULE Spec2Model ----------------------------
(***************************************************************************)
(* Model of the command-line argument parser of @boost/args:               *)
(* packages/args/src/parse.ts.  parse(argv, parserOptions) is a loop over  *)
(* the tokens of argv; the model takes one step per token, one step for    *)
(* the set-up that precedes the loop and one for the code after the loop.  *)
(*                                                                         *)
(* A token is a sequence of one-character strings, so that prefixes,       *)
(* split('=') and slice() are computed on the characters as the code does. *)
(* A value of the program (boolean, number, string, array) is a record     *)
(* [t, v] tagged with its JavaScript type.                                 *)
(*                                                                         *)
(* The helpers parse.ts imports (Scope, Checker, createScope, castValue    *)
(* ...) are not part of the sources at hand: they are modelled from the    *)
(* design document and the package documentation, and marked so in the     *)
(* source map.                                                             *)
(*                                                                         *)
(* The module also models WorkUnit, Routine, serialize and Tool of         *)
(* @boost/core, the shutdown of its Console (packages/core/src/Console.ts) *)
(* and the Program of @boost/cli: registration of commands, the chain of   *)
(* middlewares, and run() with its renders.  Each has its own variables,   *)
(* initial predicate and next-state relation; the variables of the others  *)
(* stay at their initial value.                                            *)
(***************************************************************************)
EXTENDS Integers, Sequences, FiniteSets, TLC

VARIABLES
    argv,              \* the tokens given to parse()
    cfg,               \* the parserOptions given to parse()
    pc,                \* "setup", "scan", "final", "done" or "thrown"
    i,                 \* the loop index, 1-based (argIndex = i - 1)
    options,           \* OptionMap: option name -> value
    params,            \* the params pushed so far
    rest,              \* the rest arguments
    unknown,           \* UnknownOptionMap: name -> string
    mapping,           \* AliasMap: short name -> long name
    command,           \* the command as given ('' is <<>>)
    currentScope,      \* the open Scope, or NoScope
    parseErrors,       \* checker.parseErrors
    validationErrors,  \* checker.validationErrors
    raised,            \* history: number of errors raised so far
    trace,             \* history: the branch each processed token took
    round,             \* 1: parsing the given argv, 2: parsing format(result)
    first,             \* the result of round 1, once round 2 has started
    unit,              \* a WorkUnit: its fields
    unitRun,           \* the call of WorkUnit.run() in flight, and its outcome
    now,               \* Date.now()
    routine,           \* a Routine: its fields, and the listeners of its tool
    routineRun,        \* the call of Routine.run() in flight, and its outcome
    serial,            \* a call of Routine.serialize(): the promise chain
    tool,              \* a Tool: its fields
    files,             \* what the loaders of the tool find on disk
    console,           \* a Console: its fields, and what it emitted and wrote
    program,           \* a Program: its fields
    programRun         \* the call of Program.run() in flight, and its outcome

argsVars == <<argv, cfg, pc, i, options, params, rest, unknown, mapping, command,
              currentScope, parseErrors, validationErrors, raised, trace, round, first>>

unitVars == <<unit, unitRun, now>>

routineVars == <<routine, routineRun>>

serialVars == <<serial>>

toolVars == <<tool, files>>

consoleVars == <<console>>

programVars == <<program, programRun>>

vars == <<argsVars, unitVars, routineVars, serialVars, toolVars, consoleVars,
          programVars>>

-----------------------------------------------------------------------------
(* Bounds of the model. *)

\* The longest token list given to parse().
MaxArgs == 3

-----------------------------------------------------------------------------
(* Characters and strings. *)

UpperCase == <<"A","B","C","D","E","F","G","H","I","J","K","L","M",
               "N","O","P","Q","R","S","T","U","V","W","X","Y","Z">>
LowerCase == <<"a","b","c","d","e","f","g","h","i","j","k","l","m",
               "n","o","p","q","r","s","t","u","v","w","x","y","z">>
DigitChars == <<"0","1","2","3","4","5","6","7","8","9">>

Range(s) == {s[k] : k \in DOMAIN s}

isLetter(c) == c \in Range(UpperCase) \cup Range(LowerCase)
isDigit(c) == c \in Range(DigitChars)

toLowerChar(c) ==
    IF c \in Range(UpperCase)
    THEN LowerCase[CHOOSE k \in DOMAIN UpperCase : UpperCase[k] = c]
    ELSE c

toUpperChar(c) ==
    IF c \in Range(LowerCase)
    THEN UpperCase[CHOOSE k \in DOMAIN LowerCase : LowerCase[k] = c]
    ELSE c

toLowerCase(s) == [k \in DOMAIN s |-> toLowerChar(s[k])]

\* s.slice(n): the characters of s after the first n.
slice(s, n) == IF n >= Len(s) THEN <<>> ELSE SubSeq(s, n + 1, Len(s))

\* s.indexOf(c), 1-based; 0 when c is not in s.
indexOf(s, c) ==
    IF \E k \in DOMAIN s : s[k] = c
    THEN CHOOSE k \in DOMAIN s : s[k] = c /\ \A j \in 1..(k - 1) : s[j] # c
    ELSE 0

startsWith(s, p) == Len(s) >= Len(p) /\ SubSeq(s, 1, Len(p)) = p

\* s.split(sep): the pieces of s between the occurrences of the character sep.
RECURSIVE split(_, _)
split(s, sep) ==
    LET k == indexOf(s, sep)
    IN IF k = 0 THEN <<s>>
       ELSE <<SubSeq(s, 1, k - 1)>> \o split(slice(s, k), sep)

\* s.split(sep, limit): the first `limit` pieces of s.split(sep).
splitLimit(s, sep, limit) ==
    LET all == split(s, sep)
    IN IF Len(all) <= limit THEN all ELSE SubSeq(all, 1, limit)

\* parts.join(sep)
RECURSIVE join(_, _)
join(parts, sep) ==
    IF Len(parts) = 0 THEN <<>>
    ELSE IF Len(parts) = 1 THEN parts[1]
    ELSE parts[1] \o <<sep>> \o join(Tail(parts), sep)

-----------------------------------------------------------------------------
(* Values. *)

BoolV(b) == [t |-> "boolean", v |-> b]
NumV(n) == [t |-> "number", v |-> n]
StrV(s) == [t |-> "string", v |-> s]
ListV(l) == [t |-> "array", v |-> l]
Undefined == [t |-> "undefined", v |-> FALSE]

DEFAULT_BOOLEAN_VALUE == BoolV(FALSE)
DEFAULT_NUMBER_VALUE == NumV(0)
DEFAULT_STRING_VALUE == StrV(<<>>)

digitValue(c) == (CHOOSE k \in DOMAIN DigitChars : DigitChars[k] = c) - 1

RECURSIVE digitsToNat(_)
digitsToNat(s) ==
    IF Len(s) = 0 THEN 0
    ELSE 10 * digitsToNat(SubSeq(s, 1, Len(s) - 1)) + digitValue(s[Len(s)])

isDigits(s) == Len(s) > 0 /\ \A k \in DOMAIN s : isDigit(s[k])

\* Number(s) for a string of the model's alphabet, with NaN replaced by 0:
\* '' is 0, an optionally signed run of digits is its value, anything else NaN.
stringToNumber(s) ==
    IF Len(s) = 0 THEN 0
    ELSE IF isDigits(s) THEN digitsToNat(s)
    ELSE IF s[1] = "-" /\ isDigits(Tail(s)) THEN 0 - digitsToNat(Tail(s))
    ELSE IF s[1] = "+" /\ isDigits(Tail(s)) THEN digitsToNat(Tail(s))
    ELSE 0

RECURSIVE natToString(_)
natToString(n) ==
    IF n < 10 THEN <<DigitChars[n + 1]>>
    ELSE natToString(n \div 10) \o <<DigitChars[(n % 10) + 1]>>

\* String(n) for an integer n.
numberToString(n) == IF n < 0 THEN <<"-">> \o natToString(0 - n) ELSE natToString(n)

TrueStrings == {<<"t","r","u","e">>, <<"o","n">>, <<"y","e","s">>, <<"1">>}

\* String(value) of a scalar or an array (an array joins its items with ',').
RECURSIVE toString(_)
toString(val) ==
    CASE val.t = "string" -> val.v
      [] val.t = "number" -> numberToString(val.v)
      [] val.t = "boolean" -> IF val.v THEN <<"t","r","u","e">> ELSE <<"f","a","l","s","e">>
      [] val.t = "array" -> join([k \in DOMAIN val.v |-> toString(val.v[k])], ",")
      [] OTHER -> <<"u","n","d","e","f","i","n","e","d">>

\* castValue for one value: booleans from the true strings, numbers by
\* Number() with 0 for NaN, strings by String().
castScalar(val, type) ==
    CASE type = "boolean" ->
            IF val.t = "boolean" THEN val
            ELSE BoolV(toLowerCase(toString(val)) \in TrueStrings)
      [] type = "number" ->
            IF val.t = "number" THEN val
            ELSE IF val.t = "boolean" THEN NumV(IF val.v THEN 1 ELSE 0)
            ELSE NumV(stringToNumber(toString(val)))
      [] OTHER -> StrV(toString(val))

\* castValue(value, type, multiple)
castValue(val, type, multiple) ==
    IF multiple
    THEN IF val.t = "array"
         THEN ListV([k \in DOMAIN val.v |-> castScalar(val.v[k], type)])
         ELSE ListV(<<castScalar(val, type)>>)
    ELSE castScalar(val, type)


-----------------------------------------------------------------------------
(* Tokens of the command line. *)

DASHDASH == <<"-","-">>

\* /^-{1,2}[a-z]/i : one or two dashes and then a letter.
isOptionLike(arg) ==
    \/ Len(arg) >= 2 /\ arg[1] = "-" /\ isLetter(arg[2])
    \/ Len(arg) >= 3 /\ arg[1] = "-" /\ arg[2] = "-" /\ isLetter(arg[3])

\* "-f": a dash and one letter.
isShortOption(arg) == Len(arg) = 2 /\ arg[1] = "-" /\ isLetter(arg[2])

\* "-frl": a dash and two letters or more.
isShortOptionGroup(arg) ==
    Len(arg) >= 3 /\ arg[1] = "-" /\ \A k \in 2..Len(arg) : isLetter(arg[k])

\* "--foo": two dashes, a letter, then letters, digits and dashes.
isLongOption(arg) ==
    /\ Len(arg) >= 3 /\ arg[1] = "-" /\ arg[2] = "-" /\ isLetter(arg[3])
    /\ \A k \in 4..Len(arg) : isLetter(arg[k]) \/ isDigit(arg[k]) \/ arg[k] = "-"

\* isCommand(arg, commands): arg is one of the configured commands.
isCommand(arg, commandConfigs) == arg \in Range(commandConfigs)

\* Letters, numbers and dashes, sub-commands separated by ':'.
isCommandFormat(cmd) ==
    /\ Len(cmd) > 0 /\ isLetter(cmd[1])
    /\ \A k \in DOMAIN cmd : isLetter(cmd[k]) \/ isDigit(cmd[k]) \/ cmd[k] \in {"-", ":"}

\* camelCase of a kebab-case name: each "-x" becomes "X".
RECURSIVE camelCase(_)
camelCase(name) ==
    IF Len(name) = 0 THEN <<>>
    ELSE IF name[1] = "-" /\ Len(name) >= 2
         THEN <<toUpperChar(name[2])>> \o camelCase(slice(name, 2))
    ELSE <<name[1]>> \o camelCase(Tail(name))

-----------------------------------------------------------------------------
(* Parser options: the schema. *)

NoShort == ""

\* arity 0: no arity declared; choices <<>>: no choices declared.
OptionConfig(type, multiple, arity, count, short, default, choices) ==
    [type |-> type, multiple |-> multiple, arity |-> arity, count |-> count,
     short |-> short, default |-> default, choices |-> choices]

ParamConfig(type, required, default) ==
    [type |-> type, required |-> required, default |-> default]

\* getDefaultValue(config): the declared default, or the default of the type.
getDefaultValue(config) ==
    IF config.default # Undefined THEN config.default
    ELSE IF "multiple" \in DOMAIN config /\ config.multiple THEN ListV(<<>>)
    ELSE IF config.type = "boolean" THEN DEFAULT_BOOLEAN_VALUE
    ELSE IF config.type = "number" THEN DEFAULT_NUMBER_VALUE
    ELSE DEFAULT_STRING_VALUE

\* The option names and commands of the schemas.
N_co == <<"c","o">>
N_nu == <<"n","u">>
N_st == <<"s","t">>
N_mu == <<"m","u">>
N_ve == <<"v","e">>
CMD_go == <<"g","o">>

C_co == OptionConfig("boolean", FALSE, 0, FALSE, "c", Undefined, <<>>)
C_nu == OptionConfig("number", FALSE, 0, FALSE, "n", Undefined, <<>>)
C_st == OptionConfig("string", FALSE, 0, FALSE, NoShort, StrV(<<"a">>),
                     <<StrV(<<"a">>)>>)
C_mu == OptionConfig("string", TRUE, 2, FALSE, "m", Undefined, <<>>)
C_ve == OptionConfig("number", FALSE, 0, TRUE, "v", NumV(0), <<>>)

AllOptions == (N_co :> C_co) @@ (N_nu :> C_nu) @@ (N_st :> C_st) @@ (N_mu :> C_mu)
              @@ (N_ve :> C_ve)

ParserOptions(commands, order, opts, prms, unk, variadic) ==
    [commands |-> commands, order |-> order, options |-> opts, params |-> prms,
     unknown |-> unk, variadic |-> variadic]

\* Commands, every kind of option, no params; unknown and variadic as by default.
SchemaA ==
    ParserOptions(<<CMD_go>>, <<N_co, N_nu, N_st, N_mu, N_ve>>, AllOptions, <<>>,
                  FALSE, TRUE)

\* A required and an optional param, unknown options allowed, not variadic;
\* the multiple option has arity 1.
SchemaB ==
    ParserOptions(<<CMD_go>>, <<N_co, N_nu, N_st, N_mu, N_ve>>,
                  [AllOptions EXCEPT ![N_mu].arity = 1],
                  <<ParamConfig("string", TRUE, Undefined),
                    ParamConfig("number", FALSE, NumV(5))>>,
                  TRUE, FALSE)

\* No commands; a flag and, last, a multiple option of arity 1; an optional
\* boolean param.
SchemaC ==
    ParserOptions(<<>>, <<N_co, N_mu>>,
                  (N_co :> C_co) @@ (N_mu :> [C_mu EXCEPT !.arity = 1]),
                  <<ParamConfig("boolean", FALSE, Undefined)>>, TRUE, TRUE)

\* Programmer error: two options declare the short name "c".
SchemaDupShort ==
    ParserOptions(<<>>, <<N_co, N_nu>>,
                  (N_co :> C_co) @@ (N_nu :> [C_nu EXCEPT !.short = "c"]), <<>>,
                  FALSE, TRUE)

\* Programmer error: a required param declares a default.
SchemaRequiredDefault ==
    ParserOptions(<<>>, <<N_co>>, (N_co :> C_co),
                  <<ParamConfig("string", TRUE, StrV(<<"a">>))>>, FALSE, TRUE)

Schemas == {SchemaA, SchemaB, SchemaC, SchemaDupShort, SchemaRequiredDefault}

\* The tokens the token lists are drawn from.
Tokens ==
    { DASHDASH,
      <<"-","-","c","o">>, <<"-","-","n","o","-","c","o">>,
      <<"-","-","n","o","-","c","o","=","1">>,
      <<"-","-","n","u">>, <<"-","-","s","t","=","7">>,
      <<"-","-","m","u">>, <<"-","-","m","u","=","a">>,
      <<"-","-","g","h">>,
      <<"-","c","v">>, <<"-","z">>,
      CMD_go, <<"a">>, <<"7">> }

\* Schemas and tokens for the short options: two flags, a counter and a
\* number option, each with a short name.
N_qu == <<"q","u">>
C_qu == OptionConfig("boolean", FALSE, 0, FALSE, "q", Undefined, <<>>)

ShortOptions == (N_co :> C_co) @@ (N_qu :> C_qu) @@ (N_ve :> C_ve) @@ (N_nu :> C_nu)

\* The counter starts from 0; unknown and variadic as by default.
SchemaG ==
    ParserOptions(<<CMD_go>>, <<N_co, N_qu, N_ve, N_nu>>, ShortOptions, <<>>,
                  FALSE, TRUE)

\* The counter starts from 2; unknown options allowed; one optional param,
\* not variadic.
SchemaH ==
    ParserOptions(<<CMD_go>>, <<N_co, N_qu, N_ve, N_nu>>,
                  [ShortOptions EXCEPT ![N_ve].default = NumV(2)],
                  <<ParamConfig("string", FALSE, Undefined)>>, TRUE, FALSE)

ShortSchemas == {SchemaG, SchemaH}

ShortTokens ==
    { DASHDASH,
      <<"-","c","q">>, <<"-","c">>, <<"-","q">>,
      <<"-","v","v">>, <<"-","v","v","v">>, <<"-","v">>,
      <<"-","c","z">>, <<"-","n">>,
      CMD_go, <<"a">>, <<"7">> }

\* Schemas in which every option and every param declares a default.  In
\* SchemaJ the default of st is none of its choices; in SchemaK the default
\* of mu has fewer values than its arity.
DefaultOptions ==
    (N_co :> [C_co EXCEPT !.default = BoolV(TRUE)])
    @@ (N_nu :> [C_nu EXCEPT !.default = NumV(7)])
    @@ (N_st :> C_st)
    @@ (N_mu :> [C_mu EXCEPT !.default = ListV(<<StrV(<<"a">>), StrV(<<"7">>)>>)])

DefaultParams ==
    <<ParamConfig("string", FALSE, StrV(<<"a">>)), ParamConfig("number", FALSE, NumV(5))>>

SchemaI ==
    ParserOptions(<<CMD_go>>, <<N_co, N_nu, N_st, N_mu>>, DefaultOptions,
                  DefaultParams, FALSE, FALSE)

SchemaJ ==
    ParserOptions(<<CMD_go>>, <<N_co, N_nu, N_st, N_mu>>,
                  [DefaultOptions EXCEPT ![N_st].default = StrV(<<"7">>)],
                  DefaultParams, FALSE, FALSE)

SchemaK ==
    ParserOptions(<<CMD_go>>, <<N_co, N_nu, N_st, N_mu>>,
                  [DefaultOptions EXCEPT ![N_mu].default = ListV(<<StrV(<<"a">>)>>)],
                  DefaultParams, TRUE, FALSE)

DefaultSchemas == {SchemaI, SchemaJ, SchemaK}

DefaultTokens ==
    { DASHDASH, <<"-","-","c","o">>, <<"-","-","m","u">>, <<"-","-","s","t">>,
      CMD_go, <<"a">> }

\* Command lines of values: the multiple option mu named more than once with
\* different inline values, and numeric and other values for the number
\* option and for the number and boolean params.
MultipleSchemas == {SchemaA, SchemaB, SchemaC}

MultipleTokens ==
    { DASHDASH, <<"-","-","m","u","=","a">>, <<"-","-","m","u","=","7">>,
      <<"-","-","m","u">>, <<"-","-","c","o">>, <<"-","-","n","u">>,
      CMD_go, <<"a">>, <<"1">> }

\* Command lines of inline values and of options without a value: a flag
\* with an inline value, an inline value that holds a "=", and options
\* followed by another option, by "--" or by nothing.
InlineSchemas == {SchemaA, SchemaB}

InlineTokens ==
    { DASHDASH, <<"-","-","c","o","=","1">>, <<"-","-","n","o","-","c","o","=","1">>,
      <<"-","-","c","o">>, <<"-","-","g","h">>,
      <<"-","-","s","t","=","a","=","b">>, <<"-","-","s","t">>, <<"-","-","n","u">>,
      <<"-","-","m","u">>,
      CMD_go, <<"a">>, <<"7">> }

\* The sequences over S of length n at most.
SeqsUpTo(S, n) == UNION {[1..k -> S] : k \in 0..n}

-----------------------------------------------------------------------------
(* Scope: the option whose value(s) are being captured. *)

NoScope ==
    [open |-> FALSE, name |-> <<>>, type |-> "string", multiple |-> FALSE,
     unknown |-> FALSE, negated |-> FALSE, flag |-> FALSE, value |-> Undefined]

\* createScope(optionName, optionConfigs, options): strips a "no-" prefix,
\* camel-cases the name and looks it up.  A name without configuration gives
\* an unknown scope for one string.  A multiple option starts from the array
\* already in options, so that a repeated option appends.
createScope(optionName, optionConfigs, opts) ==
    LET negated == startsWith(optionName, <<"n","o","-">>)
        stripped == IF negated THEN slice(optionName, 3) ELSE optionName
        name == IF "-" \in Range(stripped) THEN camelCase(stripped) ELSE stripped
        known == name \in DOMAIN optionConfigs
        config == IF known THEN optionConfigs[name]
                  ELSE OptionConfig("string", FALSE, 0, FALSE, NoShort, Undefined, <<>>)
    IN [open |-> TRUE, name |-> name, type |-> config.type,
        multiple |-> config.multiple, unknown |-> ~known, negated |-> negated,
        flag |-> known /\ config.type = "boolean",
        value |-> IF config.multiple
                  THEN IF opts[name].t = "array" THEN opts[name] ELSE ListV(<<>>)
                  ELSE Undefined]

\* Scope.finalValue: the captured value(s), cast to the type of the option.
finalValue(scope) == castValue(scope.value, scope.type, scope.multiple)

-----------------------------------------------------------------------------
(* The state of one call of parse(), as a record. *)

ParseError(code, arg, index) ==
    [kind |-> "parse", code |-> code, arg |-> arg, index |-> index, option |-> <<>>]

ValidationError(code, option) ==
    [kind |-> "validation", code |-> code, arg |-> <<>>, index |-> 0 - 1,
     option |-> option]

\* What the try block of the loop body returns: the state it left, and the
\* error it threw ("" when it threw none).
Ok(m) == [m |-> m, err |-> ""]
Throw(m, code) == [m |-> m, err |-> code]

\* f with f[k] set to val, k added to its domain if need be.
Put(f, k, val) == [x \in DOMAIN f \cup {k} |-> IF x = k THEN val ELSE f[x]]

EmptyMap == [x \in {} |-> Undefined]

\* A commitScope() without the branch for unknown options: every scope is
\* written to options.
commitScopeAllToOptions(m) ==
    LET scope == m.currentScope
    IN IF ~scope.open THEN m
       ELSE IF scope.value # Undefined
       THEN [m EXCEPT !.options = Put(@, scope.name, finalValue(scope)),
                      !.currentScope = NoScope]
       ELSE [m EXCEPT !.options = Put(@, scope.name, DEFAULT_STRING_VALUE),
                      !.currentScope = NoScope]

\* A commitScope() that writes the scope of a declared option whether or not
\* it has a value: without one, the default of the type is written.
commitScopeWritesEmpty(m) ==
    LET scope == m.currentScope
    IN IF ~scope.open THEN m
       ELSE IF scope.unknown
       THEN IF m.cfg.unknown
            THEN [m EXCEPT !.unknown =
                              Put(@, scope.name,
                                  IF scope.value = Undefined THEN DEFAULT_STRING_VALUE
                                  ELSE StrV(toString(finalValue(scope)))),
                           !.currentScope = NoScope]
            ELSE [m EXCEPT !.currentScope = NoScope]
       ELSE IF scope.value # Undefined
       THEN [m EXCEPT !.options = Put(@, scope.name, finalValue(scope)),
                      !.currentScope = NoScope]
       ELSE [m EXCEPT !.options =
                         Put(@, scope.name,
                             getDefaultValue([m.cfg.options[scope.name]
                                                 EXCEPT !.default = Undefined])),
                      !.currentScope = NoScope]

\* commitScope() of parse(): writes the value of the open scope, if it has
\* one, to unknown or to options, and closes the scope.
commitScope(m) ==
    LET scope == m.currentScope
    IN IF ~scope.open THEN m
       ELSE IF scope.unknown
       THEN IF m.cfg.unknown
            THEN [m EXCEPT !.unknown =
                              Put(@, scope.name,
                                  IF scope.value = Undefined THEN DEFAULT_STRING_VALUE
                                  ELSE StrV(toString(finalValue(scope)))),
                           !.currentScope = NoScope]
            ELSE [m EXCEPT !.currentScope = NoScope]
       ELSE IF scope.value # Undefined
       THEN [m EXCEPT !.options = Put(@, scope.name, finalValue(scope)),
                      !.currentScope = NoScope]
       ELSE [m EXCEPT !.currentScope = NoScope]

\* Scope.captureValue(value, commit) on the open scope: a multiple option
\* appends the value and stays open, any other takes it and commits.
captureValue(m, value) ==
    LET scope == m.currentScope
    IN IF scope.multiple
       THEN [m EXCEPT !.currentScope.value = ListV(Append(scope.value.v, StrV(value)))]
       ELSE commitScope([m EXCEPT !.currentScope.value = StrV(value)])

\* expandShortOption(short, mapping) throws when no option declares `short`.
canExpandShortOption(short, map) == short \in DOMAIN map

expandShortOption(short, map) == map[short]

\* processShortOptionGroup(group, configs, options, mapping): letter by letter,
\* a flag is set to true and a counter is incremented; any other letter throws,
\* and the letters before it have been applied.
RECURSIVE processShortOptionGroup(_, _, _, _)
processShortOptionGroup(group, configs, opts, map) ==
    IF Len(group) = 0 THEN [options |-> opts, err |-> ""]
    ELSE IF ~canExpandShortOption(group[1], map)
    THEN [options |-> opts, err |-> "SHORT_UNKNOWN"]
    ELSE LET name == expandShortOption(group[1], map)
             config == configs[name]
         IN IF config.type = "boolean" /\ ~config.multiple
            THEN processShortOptionGroup(Tail(group), configs,
                                         Put(opts, name, BoolV(TRUE)), map)
            ELSE IF config.type = "number" /\ config.count
            THEN processShortOptionGroup(
                     Tail(group), configs,
                     Put(opts, name, NumV(castScalar(opts[name], "number").v + 1)), map)
            ELSE [options |-> opts, err |-> "GROUP_UNSUPPORTED_TYPE"]

-----------------------------------------------------------------------------
(* Checker: each check gives the code of the error it throws, "" for none. *)

\* Checker.checkCommandOrder(arg, command, params.length): a command must
\* not come after params.
checkCommandOrder(anotherCommand, providedCommand, paramsLength) ==
    IF providedCommand = <<>> /\ paramsLength # 0 THEN "COMMAND_NOT_FIRST" ELSE ""

\* Checker.checkNoInlineValue(inlineValue)
checkNoInlineValue(inlineValue) ==
    IF inlineValue # Undefined THEN "VALUE_NO_INLINE" ELSE ""

\* Checker.checkUnknownOption(arg)
checkUnknownOption(arg) == "OPTION_UNKNOWN"

\* Checker.validateParamOrder(paramConfigs): no required param after an
\* optional one.
validateParamOrder(paramConfigs) ==
    IF \E j, k \in DOMAIN paramConfigs :
           j < k /\ ~paramConfigs[j].required /\ paramConfigs[k].required
    THEN "PARAM_MISORDERED" ELSE ""

\* Checker.validateCommandFormat(cmd)
validateCommandFormat(cmd) == IF isCommandFormat(cmd) THEN "" ELSE "COMMAND_INVALID_FORMAT"

\* Checker.validateUniqueShortName(name, short, mapping)
validateUniqueShortName(name, short, map) ==
    IF short \in DOMAIN map THEN "SHORT_DEFINED" ELSE ""

\* Checker.validateDefaultValue(name, value, config): the default has the
\* type of the option.
validateDefaultValue(name, value, config) ==
    IF config.multiple
    THEN IF value.t = "array" /\ \A k \in DOMAIN value.v : value.v[k].t = config.type
         THEN "" ELSE "VALUE_NON_ARRAY"
    ELSE IF value.t = config.type THEN "" ELSE "VALUE_INVALID_TYPE"

\* Checker.validateNumberCount(name, config): only a number option counts.
validateNumberCount(name, config) ==
    IF config.count /\ config.type # "number" THEN "OPTION_NUMBER_COUNT" ELSE ""

\* Checker.validateRequiredParamNoDefault(config)
validateRequiredParamNoDefault(config) ==
    IF config.required /\ config.default # Undefined THEN "PARAM_REQUIRED_NO_DEFAULT" ELSE ""

\* Checker.validateArityIsMet(name, config, value): some values, but not
\* as many as the arity.
validateArityIsMet(name, config, value) ==
    IF /\ config.arity # 0 /\ value.t = "array"
       /\ Len(value.v) > 0 /\ Len(value.v) # config.arity
    THEN <<ValidationError("VALUE_ARITY_UNMET", name)>> ELSE <<>>

\* Checker.validateChoiceIsMet(name, config, value)
validateChoiceIsMet(name, config, value) ==
    IF Len(config.choices) > 0 /\ value \notin Range(config.choices)
    THEN <<ValidationError("VALUE_INVALID_CHOICE", name)>> ELSE <<>>

\* Checker.validateParsedParam(config, value): a required param is there.
validateParsedParam(config, value) ==
    IF config.required /\ value = Undefined
    THEN <<ValidationError("PARAM_REQUIRED", <<>>)>> ELSE <<>>

\* Checker.logFailure(message): a parse error for the current argument.
logFailure(m, code) ==
    [m EXCEPT !.parseErrors = Append(@, ParseError(code, m.argv[m.i], m.i - 1))]

-----------------------------------------------------------------------------
(* parse(): the set-up before the loop. *)

\* The alias map after the options at order[1..n] were mapped.
RECURSIVE aliasMap(_, _, _)
aliasMap(cfgOptions, order, n) ==
    IF n = 0 THEN [x \in {} |-> <<>>]
    ELSE LET before == aliasMap(cfgOptions, order, n - 1)
             short == cfgOptions[order[n]].short
         IN IF short = NoShort THEN before ELSE Put(before, short, order[n])

\* The first error the set-up throws for this schema, "" when it throws none:
\* validateParamOrder, then onCommand, onOption and onParam of mapParserOptions.
setupError(c) ==
    LET optionError(n) ==
            LET name == c.order[n]
                config == c.options[name]
                dup == IF config.short = NoShort THEN ""
                       ELSE validateUniqueShortName(name, config.short,
                                                    aliasMap(c.options, c.order, n - 1))
            IN IF dup # "" THEN dup
               ELSE IF validateDefaultValue(name, getDefaultValue(config), config) # ""
               THEN validateDefaultValue(name, getDefaultValue(config), config)
               ELSE validateNumberCount(name, config)
        errors ==
            <<validateParamOrder(c.params)>>
            \o [k \in DOMAIN c.commands |-> validateCommandFormat(c.commands[k])]
            \o [k \in DOMAIN c.order |-> optionError(k)]
            \o [k \in DOMAIN c.params |-> validateRequiredParamNoDefault(c.params[k])]
        thrown == SelectSeq(errors, LAMBDA e : e # "")
    IN IF Len(thrown) = 0 THEN "" ELSE thrown[1]

\* A set-up that logs the error of the schema as a validation error and goes
\* on to the loop.
setupLogging(m) ==
    [m EXCEPT !.pc = "scan",
              !.validationErrors =
                  IF setupError(m.cfg) # ""
                  THEN Append(@, ValidationError(setupError(m.cfg), <<>>)) ELSE @,
              !.mapping = aliasMap(m.cfg.options, m.cfg.order, Len(m.cfg.order)),
              !.options = [name \in DOMAIN m.cfg.options |->
                              getDefaultValue(m.cfg.options[name])]]

\* Lines 97-120: validations and defaults.  A programmer error in the schema
\* is thrown out of parse().
setup(m) ==
    IF setupError(m.cfg) # ""
    THEN [m EXCEPT !.pc = "thrown"]
    ELSE [m EXCEPT !.pc = "scan",
                   !.mapping = aliasMap(m.cfg.options, m.cfg.order, Len(m.cfg.order)),
                   !.options = [name \in DOMAIN m.cfg.options |->
                                   getDefaultValue(m.cfg.options[name])]]

-----------------------------------------------------------------------------
(* parse(): the body of the loop, for the argument arg = argv[i]. *)

\* A rest delimiter that slices from i instead of i + 1.
restDelimiterInclusive(m) == [m EXCEPT !.rest = slice(m.argv, m.i - 1), !.pc = "final"]

\* Lines 129-133: the rest delimiter ends the loop.
restDelimiter(m) == [m EXCEPT !.rest = slice(m.argv, m.i), !.pc = "final"]

\* The same without the check of line 170: an unknown option opens a scope
\* whether or not unknown options are allowed.
scopedOptionNoUnknownCheck(m, arg, scope, inlineValue) ==
    IF scope.flag
    THEN IF checkNoInlineValue(inlineValue) # ""
         THEN Throw([m EXCEPT !.options = Put(@, scope.name, BoolV(~scope.negated))],
                    checkNoInlineValue(inlineValue))
         ELSE Ok([m EXCEPT !.options = Put(@, scope.name, BoolV(~scope.negated))])
    ELSE IF inlineValue # Undefined
    THEN Ok(captureValue([m EXCEPT !.currentScope = scope], inlineValue.v))
    ELSE Ok([m EXCEPT !.currentScope = scope])

\* The same without the branch for flags of lines 174-177: a flag opens a
\* scope as any other option does.
scopedOptionNoFlag(m, arg, scope, inlineValue) ==
    IF scope.unknown /\ ~m.cfg.unknown
    THEN Throw(m, checkUnknownOption(arg))
    ELSE IF inlineValue # Undefined
    THEN Ok(captureValue([m EXCEPT !.currentScope = scope], inlineValue.v))
    ELSE Ok([m EXCEPT !.currentScope = scope])

\* The same with the check of line 177 made before the assignment of line
\* 175: a flag with an inline value is rejected and not set.
scopedOptionCheckFirst(m, arg, scope, inlineValue) ==
    IF scope.unknown /\ ~m.cfg.unknown
    THEN Throw(m, checkUnknownOption(arg))
    ELSE IF scope.flag
    THEN IF checkNoInlineValue(inlineValue) # ""
         THEN Throw(m, checkNoInlineValue(inlineValue))
         ELSE Ok([m EXCEPT !.options = Put(@, scope.name, BoolV(~scope.negated))])
    ELSE IF inlineValue # Undefined
    THEN Ok(captureValue([m EXCEPT !.currentScope = scope], inlineValue.v))
    ELSE Ok([m EXCEPT !.currentScope = scope])

\* Lines 166-187: the scope of the option is created; an unknown option is
\* rejected, a flag is set at once, any other option opens the scope and
\* captures the inline value.
scopedOption(m, arg, scope, inlineValue) ==
    IF scope.unknown /\ ~m.cfg.unknown
    THEN Throw(m, checkUnknownOption(arg))
    ELSE IF scope.flag
    THEN IF checkNoInlineValue(inlineValue) # ""
         THEN Throw([m EXCEPT !.options = Put(@, scope.name, BoolV(~scope.negated))],
                    checkNoInlineValue(inlineValue))
         ELSE Ok([m EXCEPT !.options = Put(@, scope.name, BoolV(~scope.negated))])
    ELSE IF inlineValue # Undefined
    THEN Ok(captureValue([m EXCEPT !.currentScope = scope], inlineValue.v))
    ELSE Ok([m EXCEPT !.currentScope = scope])

\* A short option group without the continue of line 155: after the letters
\* the group is looked up as the name of an option.
shortOptionGroupFallThrough(m, optionName, inlineValue) ==
    IF checkNoInlineValue(inlineValue) # ""
    THEN Throw(m, checkNoInlineValue(inlineValue))
    ELSE LET g == processShortOptionGroup(slice(optionName, 1), m.cfg.options,
                                          m.options, m.mapping)
         IN IF g.err # "" THEN [m |-> [m EXCEPT !.options = g.options], err |-> g.err]
            ELSE scopedOption([m EXCEPT !.options = g.options], optionName,
                              createScope(optionName, m.cfg.options, g.options),
                              inlineValue)

\* A short option group cut with slice(2): the first letter is lost.
shortOptionGroupSliceTwo(m, optionName, inlineValue) ==
    IF checkNoInlineValue(inlineValue) # ""
    THEN Throw(m, checkNoInlineValue(inlineValue))
    ELSE LET g == processShortOptionGroup(slice(optionName, 2), m.cfg.options,
                                          m.options, m.mapping)
         IN [m |-> [m EXCEPT !.options = g.options], err |-> g.err]

\* Lines 149-155: a short option group.
shortOptionGroup(m, optionName, inlineValue) ==
    IF checkNoInlineValue(inlineValue) # ""
    THEN Throw(m, checkNoInlineValue(inlineValue))
    ELSE LET g == processShortOptionGroup(slice(optionName, 1), m.cfg.options,
                                          m.options, m.mapping)
         IN [m |-> [m EXCEPT !.options = g.options], err |-> g.err]

\* The same with a short option that no option declares handed on by its
\* letter, as a long option of that name would be.
namedOptionShortAsLong(m, arg, optionName, inlineValue) ==
    IF isShortOptionGroup(optionName)
    THEN shortOptionGroup(m, optionName, inlineValue)
    ELSE IF isShortOption(optionName)
    THEN scopedOption(m, arg,
                      createScope(IF canExpandShortOption(optionName[2], m.mapping)
                                  THEN expandShortOption(optionName[2], m.mapping)
                                  ELSE slice(optionName, 1),
                                  m.cfg.options, m.options),
                      inlineValue)
    ELSE IF isLongOption(optionName)
    THEN scopedOption(m, arg, createScope(slice(optionName, 2), m.cfg.options, m.options),
                      inlineValue)
    ELSE scopedOption(m, arg, createScope(optionName, m.cfg.options, m.options),
                      inlineValue)

\* The same with createScope() handed no options: every scope starts without
\* the values of the occurrences before it.
namedOptionFreshScope(m, arg, optionName, inlineValue) ==
    LET none == [n \in DOMAIN m.options |-> Undefined]
    IN IF isShortOptionGroup(optionName)
       THEN shortOptionGroup(m, optionName, inlineValue)
       ELSE IF isShortOption(optionName)
       THEN IF canExpandShortOption(optionName[2], m.mapping)
            THEN scopedOption(m, arg,
                              createScope(expandShortOption(optionName[2], m.mapping),
                                          m.cfg.options, none),
                              inlineValue)
            ELSE Throw(m, "SHORT_UNKNOWN")
       ELSE IF isLongOption(optionName)
       THEN scopedOption(m, arg, createScope(slice(optionName, 2), m.cfg.options, none),
                         inlineValue)
       ELSE scopedOption(m, arg, createScope(optionName, m.cfg.options, none),
                         inlineValue)

\* The same with a lone short option handled as a group of one letter: a
\* counter named by its short name alone is incremented and opens no scope.
namedOptionCountsLone(m, arg, optionName, inlineValue) ==
    IF isShortOptionGroup(optionName)
    THEN shortOptionGroup(m, optionName, inlineValue)
    ELSE IF isShortOption(optionName)
    THEN IF canExpandShortOption(optionName[2], m.mapping)
         THEN LET name == expandShortOption(optionName[2], m.mapping)
              IN IF m.cfg.options[name].type = "number" /\ m.cfg.options[name].count
                 THEN Ok([m EXCEPT !.options =
                             Put(@, name, NumV(castScalar(m.options[name], "number").v + 1))])
                 ELSE scopedOption(m, arg, createScope(name, m.cfg.options, m.options),
                                   inlineValue)
         ELSE Throw(m, "SHORT_UNKNOWN")
    ELSE IF isLongOption(optionName)
    THEN scopedOption(m, arg, createScope(slice(optionName, 2), m.cfg.options, m.options),
                      inlineValue)
    ELSE scopedOption(m, arg, createScope(optionName, m.cfg.options, m.options),
                      inlineValue)

\* Lines 149-187: the option named optionName, with its inline value.
namedOption(m, arg, optionName, inlineValue) ==
    IF isShortOptionGroup(optionName)
    THEN shortOptionGroup(m, optionName, inlineValue)
    ELSE IF isShortOption(optionName)
    THEN IF canExpandShortOption(optionName[2], m.mapping)
         THEN scopedOption(m, arg,
                           createScope(expandShortOption(optionName[2], m.mapping),
                                       m.cfg.options, m.options),
                           inlineValue)
         ELSE Throw(m, "SHORT_UNKNOWN")
    ELSE IF isLongOption(optionName)
    THEN scopedOption(m, arg, createScope(slice(optionName, 2), m.cfg.options, m.options),
                      inlineValue)
    ELSE scopedOption(m, arg, createScope(optionName, m.cfg.options, m.options),
                      inlineValue)

\* An option branch without the commitScope() of line 142.
optionBranchNoCommit(m, arg) ==
    IF "=" \in Range(arg)
    THEN namedOption(m, arg, splitLimit(arg, "=", 2)[1],
                     StrV(splitLimit(arg, "=", 2)[2]))
    ELSE namedOption(m, arg, arg, Undefined)

\* An option branch that splits the name off and drops the inline value.
optionBranchNoInline(m, arg) ==
    IF "=" \in Range(arg)
    THEN namedOption(commitScope(m), arg, splitLimit(arg, "=", 2)[1], Undefined)
    ELSE namedOption(commitScope(m), arg, arg, Undefined)

\* Lines 137-187: an option.  The previous scope is committed, then the
\* name is split from the inline value: arg.split('=', 2).
optionBranch(m, arg) ==
    IF "=" \in Range(arg)
    THEN namedOption(commitScope(m), arg, splitLimit(arg, "=", 2)[1],
                     StrV(splitLimit(arg, "=", 2)[2]))
    ELSE namedOption(commitScope(m), arg, arg, Undefined)

\* A capture that is not handed commitScope: the value is taken and the
\* scope stays open.
valueBranchNoCommit(m, arg) ==
    Ok([m EXCEPT !.currentScope.value =
                     IF m.currentScope.multiple
                     THEN ListV(Append(m.currentScope.value.v, StrV(arg)))
                     ELSE StrV(arg)])

\* Lines 190-191: a value of the open scope.
valueBranch(m, arg) == Ok(captureValue(m, arg))

\* A command branch without the checkCommandOrder() of line 195.
commandBranchUnchecked(m, arg) ==
    IF m.command = <<>> THEN Ok([m EXCEPT !.command = arg]) ELSE Ok(m)

\* Lines 194-199: a command.
commandBranch(m, arg) ==
    IF checkCommandOrder(arg, m.command, Len(m.params)) # ""
    THEN Throw(m, checkCommandOrder(arg, m.command, Len(m.params)))
    ELSE IF m.command = <<>> THEN Ok([m EXCEPT !.command = arg]) ELSE Ok(m)

\* A param branch without the castValue() of line 205: the token is pushed
\* as the string it is.
paramBranchNoCast(m, arg) ==
    IF Len(m.params) < Len(m.cfg.params) \/ m.cfg.variadic
    THEN Ok([m EXCEPT !.params = Append(@, StrV(arg))])
    ELSE Throw(m, "PARAM_UNKNOWN")

\* A param branch without the test of allowVariadic of line 206.
paramBranchAlwaysVariadic(m, arg) ==
    IF Len(m.params) < Len(m.cfg.params)
    THEN LET config == m.cfg.params[Len(m.params) + 1]
         IN Ok([m EXCEPT !.params = Append(@, castValue(StrV(arg), config.type, FALSE))])
    ELSE Ok([m EXCEPT !.params = Append(@, StrV(arg))])

\* Lines 202-210: a param.
paramBranch(m, arg) ==
    IF Len(m.params) < Len(m.cfg.params)
    THEN LET config == m.cfg.params[Len(m.params) + 1]
         IN Ok([m EXCEPT !.params = Append(@, castValue(StrV(arg), config.type, FALSE))])
    ELSE IF m.cfg.variadic
    THEN Ok([m EXCEPT !.params = Append(@, StrV(arg))])
    ELSE Throw(m, "PARAM_UNKNOWN")

\* The conditions of lines 190 and 194 in the other order: a command is
\* looked for before the open scope.
branchOfCommandFirst(m, arg) ==
    IF isOptionLike(arg) THEN "option"
    ELSE IF isCommand(arg, m.cfg.commands) THEN "command"
    ELSE IF m.currentScope.open THEN "value"
    ELSE "param"

\* The condition of line 194 with a test of `command`: a plain token is
\* looked up as a command only until there is one.
branchOfCommandOnce(m, arg) ==
    IF isOptionLike(arg) THEN "option"
    ELSE IF m.currentScope.open THEN "value"
    ELSE IF m.command = <<>> /\ isCommand(arg, m.cfg.commands) THEN "command"
    ELSE "param"

\* The branch of the try block that arg takes.
branchOf(m, arg) ==
    IF isOptionLike(arg) THEN "option"
    ELSE IF m.currentScope.open THEN "value"
    ELSE IF isCommand(arg, m.cfg.commands) THEN "command"
    ELSE "param"

\* Lines 135-210: the try block.
tryBlock(m, arg) ==
    CASE branchOf(m, arg) = "option" -> optionBranch(m, arg)
      [] branchOf(m, arg) = "value" -> valueBranch(m, arg)
      [] branchOf(m, arg) = "command" -> commandBranch(m, arg)
      [] OTHER -> paramBranch(m, arg)

\* A catch block that swallows the error instead of logging it.
catchBlockSilent(m, code) == [m EXCEPT !.currentScope = NoScope]

\* Lines 211-216: the catch block.
catchBlock(m, code) == logFailure([m EXCEPT !.currentScope = NoScope], code)

\* A catch block that ends with break instead of continue.
endOfBodyBreak(m, r) ==
    [(IF r.err = "" THEN r.m ELSE catchBlock(r.m, r.err))
        EXCEPT !.i = m.i + 1,
               !.pc = IF r.err = "" THEN "scan" ELSE "final",
               !.raised = @ + (IF r.err = "" THEN 0 ELSE 1),
               !.trace = Append(@, [branch |-> branchOf(m, m.argv[m.i]),
                                    arg |-> m.argv[m.i], scope |-> m.currentScope,
                                    err |-> r.err])]

\* Lines 211-217: the end of an iteration whose try block returned r.
endOfBody(m, r) ==
    [(IF r.err = "" THEN r.m ELSE catchBlock(r.m, r.err))
        EXCEPT !.i = m.i + 1,
               !.raised = @ + (IF r.err = "" THEN 0 ELSE 1),
               !.trace = Append(@, [branch |-> branchOf(m, m.argv[m.i]),
                                    arg |-> m.argv[m.i], scope |-> m.currentScope,
                                    err |-> r.err])]

\* Lines 123-217: one iteration of the loop, for an argument other than "--".
loopBody(m) == endOfBody(m, tryBlock(m, m.argv[m.i]))

-----------------------------------------------------------------------------
(* parse(): after the loop. *)

\* The fill loop with continue instead of break: a required slot is skipped
\* and the defaults of the slots after it are pushed.
RECURSIVE fillFromSlot(_, _, _)
fillFromSlot(prms, paramConfigs, k) ==
    IF k > Len(paramConfigs) THEN prms
    ELSE IF paramConfigs[k].required THEN fillFromSlot(prms, paramConfigs, k + 1)
    ELSE fillFromSlot(Append(prms, getDefaultValue(paramConfigs[k])), paramConfigs, k + 1)

fillMissingParamsNoBreak(prms, paramConfigs) ==
    fillFromSlot(prms, paramConfigs, Len(prms) + 1)

\* Lines 222-231: the defaults of the params that are missing, up to the
\* first required one.
RECURSIVE fillMissingParams(_, _)
fillMissingParams(prms, paramConfigs) ==
    IF Len(prms) >= Len(paramConfigs) THEN prms
    ELSE IF paramConfigs[Len(prms) + 1].required THEN prms
    ELSE fillMissingParams(Append(prms, getDefaultValue(paramConfigs[Len(prms) + 1])),
                           paramConfigs)

\* onOption without the call of line 237: the arity is never checked.
RECURSIVE finalOptionsNoArity(_, _)
finalOptionsNoArity(m, n) ==
    IF n = 0 THEN m
    ELSE LET b == finalOptionsNoArity(m, n - 1)
             name == b.cfg.order[n]
             config == b.cfg.options[name]
             value == b.options[name]
         IN [b EXCEPT !.validationErrors =
                          @ \o validateChoiceIsMet(name, config, value),
                      !.options =
                          IF value = getDefaultValue(config)
                          THEN Put(@, name, castValue(value, config.type, config.multiple))
                          ELSE @]

\* Lines 235-245: onOption of the final checks, for the options order[1..n].
RECURSIVE finalOptions(_, _)
finalOptions(m, n) ==
    IF n = 0 THEN m
    ELSE LET b == finalOptions(m, n - 1)
             name == b.cfg.order[n]
             config == b.cfg.options[name]
             value == b.options[name]
         IN [b EXCEPT !.validationErrors =
                          @ \o validateArityIsMet(name, config, value)
                            \o validateChoiceIsMet(name, config, value),
                      !.options =
                          IF value = getDefaultValue(config)
                          THEN Put(@, name, castValue(value, config.type, config.multiple))
                          ELSE @]

\* Lines 246-248: onParam of the final checks, for the params 1..n.
RECURSIVE finalParams(_, _)
finalParams(m, n) ==
    IF n = 0 THEN m
    ELSE LET b == finalParams(m, n - 1)
             value == IF n <= Len(b.params) THEN b.params[n] ELSE Undefined
         IN [b EXCEPT !.validationErrors = @ \o validateParsedParam(b.cfg.params[n], value)]

\* The code after the loop without lines 222-231: no default is pushed for a
\* param that is missing.
finalizeNoFill(m) ==
    LET m1 == commitScope(m)
        m3 == finalOptions(m1, Len(m1.cfg.order))
        m4 == finalParams(m3, Len(m3.cfg.params))
    IN [m4 EXCEPT !.pc = "done"]

\* The code after the loop without the commitScope() of line 220: a scope
\* that is open when the loop ends is dropped.
finalizeNoCommit(m) ==
    LET m1 == [m EXCEPT !.currentScope = NoScope]
        m2 == [m1 EXCEPT !.params = fillMissingParams(@, m1.cfg.params)]
        m3 == finalOptions(m2, Len(m2.cfg.order))
        m4 == finalParams(m3, Len(m3.cfg.params))
    IN [m4 EXCEPT !.pc = "done"]

\* Lines 219-258: commit the final scope, fill the params, run the checks.
finalize(m) ==
    LET m1 == commitScope(m)
        m2 == [m1 EXCEPT !.params = fillMissingParams(@, m1.cfg.params)]
        m3 == finalOptions(m2, Len(m2.cfg.order))
        m4 == finalParams(m3, Len(m3.cfg.params))
    IN [m4 EXCEPT !.pc = "done"]

\* A return with the two lists of errors in the other order.
resultValidationFirst(m) ==
    [command |-> IF m.command = <<>> THEN <<>> ELSE split(m.command, ":"),
     errors |-> m.validationErrors \o m.parseErrors,
     options |-> m.options,
     optionOrder |-> m.cfg.order,
     params |-> m.params,
     rest |-> m.rest,
     unknown |-> m.unknown]

\* Lines 251-258: the Arguments returned.  optionOrder is the order of the
\* keys of `options`, which is the order of the schema.
result(m) ==
    [command |-> IF m.command = <<>> THEN <<>> ELSE split(m.command, ":"),
     errors |-> m.parseErrors \o m.validationErrors,
     options |-> m.options,
     optionOrder |-> m.cfg.order,
     params |-> m.params,
     rest |-> m.rest,
     unknown |-> m.unknown]

-----------------------------------------------------------------------------
(* format(): from Arguments back to a token list. *)

\* The tokens of one option: a flag is "--name" or "--no-name", any other
\* option is "--name" and then its value, or each of its values.
formatOption(name, value) ==
    IF value.t = "boolean"
    THEN <<(IF value.v THEN <<"-","-">> ELSE <<"-","-","n","o","-">>) \o name>>
    ELSE IF value.t = "array"
    THEN <<(<<"-","-">> \o name)>> \o [k \in DOMAIN value.v |-> toString(value.v[k])]
    ELSE <<(<<"-","-">> \o name), toString(value)>>

RECURSIVE formatOptions(_, _)
formatOptions(res, n) ==
    IF n = 0 THEN <<>>
    ELSE formatOptions(res, n - 1)
         \o formatOption(res.optionOrder[n], res.options[res.optionOrder[n]])

\* format(args): the command, the options in their long form, the params
\* and, after "--", the rest.
format(res) ==
    (IF Len(res.command) > 0 THEN <<join(res.command, ":")>> ELSE <<>>)
    \o formatOptions(res, Len(res.optionOrder))
    \o [k \in DOMAIN res.params |-> toString(res.params[k])]
    \o (IF Len(res.rest) > 0 THEN <<DASHDASH>> \o res.rest ELSE <<>>)

-----------------------------------------------------------------------------
(* The state machine. *)

-----------------------------------------------------------------------------
(* WorkUnit of @boost/pipeline: packages/pipeline/src/WorkUnit.ts.  The     *)
(* state s of a unit is the record of its fields (unit), of the call of    *)
(* run() in flight (run) and of the clock (now).  run() is two steps: from *)
(* the call to the await of the action, and from the settling of the       *)
(* action to the settling of run().  The listeners of the events return    *)
(* normally; a listener of onRun may return false, which bails.            *)

\* The calls of run() made on one unit.
MaxRuns == 2

\* The values given to run() are 1..MaxValue; an action resolves with one of
\* 1..2 * MaxValue.
MaxValue == 2

STATUS_PENDING == "pending"
STATUS_RUNNING == "running"
STATUS_SKIPPED == "skipped"
STATUS_PASSED == "passed"
STATUS_FAILED == "failed"

\* this.output before any run: undefined.
NoOutput == 0

\* The errors an action throws.
Errors == {"Oops", "Failure"}

\* Lines 17-60: the fields after the constructor; action is "function" or "null".
newWorkUnit(action) ==
    [action |-> action, status |-> STATUS_PENDING, output |-> NoOutput,
     startTime |-> 0, stopTime |-> 0, statusText |-> ""]

\* No call of run() in flight, after `runs` calls.
noRun(runs) ==
    [pc |-> "idle", runs |-> runs, value |-> 0, bail |-> FALSE, invoked |-> FALSE,
     outcome |-> "none", result |-> 0, error |-> "", emitted |-> <<>>]

\* Event.emit(args), as seen by the listeners of the event.
emit(r, event, arg) == [r EXCEPT !.emitted = Append(@, <<event, arg>>)]

\* Lines 100-102.
WorkUnit_isSkipped(u) == u.status = STATUS_SKIPPED

\* Lines 145-151.
WorkUnit_skip(u, condition) ==
    IF condition THEN [u EXCEPT !.status = STATUS_SKIPPED] ELSE u

\* Lines 111-119: the unit is skipped and run() resolves with its input.
WorkUnit_runSkipped(s, value) ==
    [s EXCEPT !.unit.status = STATUS_SKIPPED,
              !.run = [emit(@, "skip", value) EXCEPT !.pc = "settled",
                                                     !.outcome = "resolved",
                                                     !.result = value]]

\* Lines 121-125: the action is called and awaited.
WorkUnit_runAction(s, value) ==
    [s EXCEPT !.unit.status = STATUS_RUNNING,
              !.unit.startTime = s.now,
              !.now = @ + 1,
              !.run.pc = "awaiting",
              !.run.invoked = TRUE]

\* run() without the test of what onRun.emit() returns: a bail is ignored.
WorkUnit_runNoBail(s, value, bail) ==
    LET s1 == [s EXCEPT !.run = emit([noRun(s.run.runs + 1) EXCEPT !.value = value,
                                                                   !.bail = bail],
                                     "run", value)]
    IN IF WorkUnit_isSkipped(s1.unit) \/ s1.unit.action = "null"
       THEN WorkUnit_runSkipped(s1, value)
       ELSE WorkUnit_runAction(s1, value)

\* Lines 107-125: run(context, value) up to the await; bail is what
\* onRun.emit() returns.
WorkUnit_run(s, value, bail) ==
    LET s1 == [s EXCEPT !.run = emit([noRun(s.run.runs + 1) EXCEPT !.value = value,
                                                                   !.bail = bail],
                                     "run", value)]
    IN IF bail \/ WorkUnit_isSkipped(s1.unit) \/ s1.unit.action = "null"
       THEN WorkUnit_runSkipped(s1, value)
       ELSE WorkUnit_runAction(s1, value)

\* Lines 125-128 and 137-139: the action has resolved with out.
WorkUnit_runPassed(s, out) ==
    [s EXCEPT !.unit.output = out,
              !.unit.status = STATUS_PASSED,
              !.unit.stopTime = s.now,
              !.unit.statusText = "",
              !.now = @ + 1,
              !.run = [emit(@, "pass", out) EXCEPT !.pc = "settled",
                                                   !.outcome = "resolved",
                                                   !.result = out]]

\* A catch block that does not rethrow: run() goes on to line 137 and
\* resolves with the output the unit has.
WorkUnit_runFailedSwallowed(s, error) ==
    [s EXCEPT !.unit.status = STATUS_FAILED,
              !.unit.stopTime = s.now,
              !.unit.statusText = "",
              !.now = @ + 1,
              !.run = [emit(@, "fail", error) EXCEPT !.pc = "settled",
                                                     !.outcome = "resolved",
                                                     !.result = s.unit.output]]

\* Lines 129-135: the action has thrown error.
WorkUnit_runFailed(s, error) ==
    [s EXCEPT !.unit.status = STATUS_FAILED,
              !.unit.stopTime = s.now,
              !.now = @ + 1,
              !.run = [emit(@, "fail", error) EXCEPT !.pc = "settled",
                                                     !.outcome = "rejected",
                                                     !.error = error]]

-----------------------------------------------------------------------------
(* Routine: src/Routine.ts.  A routine is a Task whose action is its        *)
(* execute() method.  The state s is the record of its fields (routine)    *)
(* and of the call of run() in flight (run).  Task, the class it extends,  *)
(* is not part of the sources at hand: the run() of Task is modelled from  *)
(* its tests.                                                              *)

\* The calls of configure() made on one routine.
MaxConfigures == 2

\* The 'exit' events the tool emits.
MaxExits == 2

INTERRUPTED == "Process has been interrupted."

\* Lines 29-54: the fields after the constructor.  listeners is the number
\* of listeners this routine has bound to the 'exit' event of its tool,
\* executed the number of calls of its action, and exits the number of 'exit'
\* events the tool has emitted.
newRoutine ==
    [exit |-> FALSE, status |-> STATUS_PENDING, listeners |-> 0, executed |-> 0,
     exits |-> 0]

\* Lines 64-81: configure(parent) binds one more listener of 'exit'.
Routine_configure(r) == [r EXCEPT !.listeners = @ + 1]

\* Lines 69-71, when the tool emits 'exit': each listener sets the flag.
Routine_onExit(r) ==
    [r EXCEPT !.exit = IF r.listeners > 0 THEN TRUE ELSE @, !.exits = @ + 1]

\* Task.run(value, context) up to the await of the action: the action is
\* called and the task is running.
Task_run(s, value) ==
    [s EXCEPT !.routine.status = STATUS_RUNNING,
              !.routine.executed = @ + 1,
              !.run.pc = "awaiting"]

\* run() without the test of this.exit of lines 164-166.
Routine_runUnguarded(s, value) ==
    LET s1 == [s EXCEPT !.run = [noRun(s.run.runs + 1) EXCEPT !.value = value]]
    IN IF s1.routine.listeners = 0
       THEN [s1 EXCEPT !.run.pc = "settled", !.run.outcome = "thrown",
                       !.run.error = "TypeError"]
       ELSE Task_run(s1, value)

\* Lines 163-182: run(value, context) up to the await.  Before configure()
\* this.debug is undefined and calling it throws a TypeError.
Routine_run(s, value) ==
    LET s1 == [s EXCEPT !.run = [noRun(s.run.runs + 1) EXCEPT !.value = value]]
    IN IF s1.routine.exit
       THEN [s1 EXCEPT !.run.pc = "settled", !.run.outcome = "rejected",
                       !.run.error = INTERRUPTED]
       ELSE IF s1.routine.listeners = 0
       THEN [s1 EXCEPT !.run.pc = "settled", !.run.outcome = "thrown",
                       !.run.error = "TypeError"]
       ELSE Task_run(s1, value)

\* Task.run() and lines 172-176: execute() has resolved with out.
Routine_runPassed(s, out) ==
    [s EXCEPT !.routine.status = STATUS_PASSED,
              !.run.pc = "settled", !.run.outcome = "resolved", !.run.result = out]

\* Task.run() and lines 177-181: execute() has rejected with error.
Routine_runFailed(s, error) ==
    [s EXCEPT !.routine.status = STATUS_FAILED,
              !.run.pc = "settled", !.run.outcome = "rejected", !.run.error = error]

-----------------------------------------------------------------------------
(* Routine.serialize(): src/Routine.ts lines 189-198, src/Routine.js lines  *)
(* 106-114.  The chain that items.reduce() builds is a list of promises:   *)
(* the first is Promise.resolve(initialValue), and the promise of an item  *)
(* is the then() of the promise before it.  A reaction of then() runs once *)
(* its parent has settled: the accumulator is called when the parent is    *)
(* fulfilled, and a rejection is handed on without a call.                 *)

\* The longest list of items given to serialize().
MaxItems == 3

Promise_pending == [state |-> "pending", value |-> 0, reason |-> ""]

\* Promise.resolve(value), for a value that is not a promise.
Promise_resolve(value) == [state |-> "fulfilled", value |-> value, reason |-> ""]

Promise_reject(reason) == [state |-> "rejected", value |-> 0, reason |-> reason]

\* No call of serialize() yet.
noSerial ==
    [pc |-> "idle", initialValue |-> 0, items |-> <<>>, promises |-> <<>>,
     parent |-> <<>>, calling |-> {}, calls |-> <<>>]

\* serialize() with every then() put on the first promise instead of on the
\* promise of the item before.
Routine_serializeUnchained(initialValue, items) ==
    [pc |-> "chained", initialValue |-> initialValue, items |-> items,
     promises |-> <<Promise_resolve(initialValue)>>
                  \o [k \in DOMAIN items |-> Promise_pending],
     parent |-> <<0>> \o [k \in DOMAIN items |-> 1],
     calling |-> {}, calls |-> <<>>]

\* serialize(initialValue, items, accumulator): promises[1] is
\* Promise.resolve(initialValue), promises[k + 1] is the then() of promises[k]
\* for items[k], and the last one is returned.
Routine_serialize(initialValue, items) ==
    [pc |-> "chained", initialValue |-> initialValue, items |-> items,
     promises |-> <<Promise_resolve(initialValue)>>
                  \o [k \in DOMAIN items |-> Promise_pending],
     parent |-> <<0>> \o [k \in DOMAIN items |-> k],
     calling |-> {}, calls |-> <<>>]

\* The reaction of promises[j] can run: its parent has settled and it has
\* not run yet.
canReact(c, j) ==
    /\ j \in 2..Len(c.promises)
    /\ c.promises[j].state = "pending" /\ j \notin c.calling
    /\ c.promises[c.parent[j]].state # "pending"

\* promise.then(value => accumulator(value, item)): the reaction of
\* promises[j].  The accumulator is called with the value of the parent and
\* the item; a rejected parent rejects the promise with the same reason.
react(c, j) ==
    LET from == c.promises[c.parent[j]]
    IN IF from.state = "fulfilled"
       THEN [c EXCEPT !.calling = @ \cup {j},
                      !.calls = Append(@, [item |-> c.items[j - 1], value |-> from.value])]
       ELSE [c EXCEPT !.promises[j] = Promise_reject(from.reason)]

\* The promise the accumulator returned for promises[j] has settled as p.
settle(c, j, p) == [c EXCEPT !.promises[j] = p, !.calling = @ \ {j}]

\* The promise serialize() returned.
returned(c) == c.promises[Len(c.promises)]

-----------------------------------------------------------------------------
(* Tool: src/Tool.js.  The loaders of the tool (ConfigLoader, ModuleLoader) *)
(* are not part of the sources at hand: what they load is modelled as a    *)
(* function of the files on disk, after the tests of the tool.             *)

\* The calls of initialize() and of the load methods made on one tool.
MaxCalls == 5

\* The contents the files on disk can have.
FileVersions == {1, 2}

\* constants.js lines 21-26.  A reporter of '' is no reporter.
DEFAULT_TOOL_CONFIG ==
    [empty |-> FALSE, debug |-> FALSE, silent |-> FALSE, plugins |-> <<>>,
     reporter |-> "", foo |-> 0]

\* ConfigLoader.loadConfig(): the defaults and the settings of the file.
ConfigLoader_loadConfig(version) ==
    [DEFAULT_TOOL_CONFIG EXCEPT !.foo = version,
                                !.plugins = IF version = 1 THEN <<3, 1, 2>> ELSE <<2, 1>>,
                                !.reporter = IF version = 1 THEN "" ELSE "custom"]

\* ConfigLoader.loadPackageJSON()
ConfigLoader_loadPackageJSON(version) == [name |-> "boost", version |-> version]

\* No package.json loaded.
NoPackage == [name |-> "", version |-> 0]

\* plugins.sort((a, b) => a.priority - b.priority), a plugin being its
\* priority.
RECURSIVE sortByPriority(_)
sortByPriority(plugins) ==
    IF Len(plugins) = 0 THEN <<>>
    ELSE LET least == CHOOSE k \in DOMAIN plugins :
                          \A j \in DOMAIN plugins : plugins[k] <= plugins[j]
         IN <<plugins[least]>>
            \o sortByPriority([j \in 1..(Len(plugins) - 1) |->
                                  IF j < least THEN plugins[j] ELSE plugins[j + 1]])

\* Lines 22-72: the fields after the constructor.  console is whether
\* this.console is set; thrown is the error the last call threw, '' for none;
\* calls is the number of calls made, and after the methods called since the
\* tool was initialized.
newTool(args, extendArgv) ==
    [argv |-> args, extendArgv |-> extendArgv, initialized |-> FALSE,
     console |-> FALSE, config |-> DEFAULT_TOOL_CONFIG, package |-> NoPackage,
     plugins |-> <<>>, reporter |-> "", started |-> FALSE, thrown |-> "",
     calls |-> 0, after |-> {}]

\* A call that throws: the fields stay as they are.
Tool_throw(t, error) == [t EXCEPT !.thrown = error]

\* loadConfig() without the test of this.initialized.
Tool_loadConfigAlways(t, version) ==
    IF ~t.console THEN Tool_throw(t, "TypeError")
    ELSE [t EXCEPT !.package = ConfigLoader_loadPackageJSON(version),
                   !.config = [ConfigLoader_loadConfig(version) EXCEPT
                                  !.debug = t.extendArgv /\ "--debug" \in t.argv,
                                  !.silent = t.extendArgv /\ "--silent" \in t.argv]]

\* Lines 152-177: loadConfig().  this.console is set by initialize() only,
\* and without it startDebugGroup() is called on undefined.
Tool_loadConfig(t, version) ==
    IF t.initialized THEN t
    ELSE IF ~t.console THEN Tool_throw(t, "TypeError")
    ELSE [t EXCEPT !.package = ConfigLoader_loadPackageJSON(version),
                   !.config = [ConfigLoader_loadConfig(version) EXCEPT
                                  !.debug = t.extendArgv /\ "--debug" \in t.argv,
                                  !.silent = t.extendArgv /\ "--silent" \in t.argv]]

\* Lines 184-213: loadPlugins().
Tool_loadPlugins(t) ==
    IF t.initialized THEN t
    ELSE IF t.config.empty THEN Tool_throw(t, "Cannot load plugins")
    ELSE IF ~t.console THEN Tool_throw(t, "TypeError")
    ELSE [t EXCEPT !.plugins = sortByPriority(t.config.plugins)]

\* Lines 220-249: loadReporter().
Tool_loadReporter(t) ==
    IF t.initialized THEN t
    ELSE IF t.config.empty THEN Tool_throw(t, "Cannot load reporter")
    ELSE IF ~t.console THEN Tool_throw(t, "TypeError")
    ELSE [t EXCEPT !.reporter = IF t.config.reporter # "" THEN t.config.reporter
                                 ELSE "native"]

\* Lines 110-136: initialize().
Tool_initialize(t, version) ==
    IF t.initialized THEN t
    ELSE LET t1 == Tool_loadConfig([t EXCEPT !.console = TRUE], version)
             t2 == Tool_loadPlugins(t1)
             t3 == Tool_loadReporter(t2)
         IN [t3 EXCEPT !.started = TRUE, !.initialized = TRUE]

-----------------------------------------------------------------------------
(* Console of @boost/core: packages/core/src/Console.ts.  The state c of a  *)
(* console is the record of its fields, of what it has emitted and          *)
(* displayed, and of the exit code of the process.  The listeners of its    *)
(* events return normally and make no call on the console.                  *)

\* The number of calls made on the console.
MaxConsoleCalls == 4

\* The messages that are logged.
Messages == {"one", "two"}

\* What exit() is given as message: null, a string, an Error.
NoMessage == "null"

ExitMessages == {NoMessage, "message", "Error"}

ExitCodes == {1, 2}

TERMINATED == "Process has been terminated."

\* Lines 34-48: the fields after the constructor.  wrapped is the number of
\* calls of wrapConsole() and native whether console.log and the like are
\* the native ones; emitted is the list of events emitted, displayed the
\* list of logs each displayLogs() was given; exitCode is process.exitCode
\* and exited the code exit() was called with, <<>> when unset; calls is
\* the list of methods called.
newConsole ==
    [exiting |-> FALSE, logs |-> <<>>, errorLogs |-> <<>>, wrapped |-> 0,
     native |-> TRUE, listening |-> TRUE, emitted |-> <<>>, displayed |-> <<>>,
     exitCode |-> <<>>, exited |-> <<>>, calls |-> <<>>]

\* Emitter.emit(event, args)
Console_emit(c, event, args) ==
    [c EXCEPT !.emitted = Append(@, [event |-> event, args |-> args])]

\* Lines 244-248: log(message).
Console_log(c, message) == [c EXCEPT !.logs = Append(@, message)]

\* Lines 262-266: logError(message).
Console_logError(c, message) == [c EXCEPT !.errorLogs = Append(@, message)]

\* Lines 335-343: start(): wrapConsole(), displayHeader(), emit('start').
Console_start(c) ==
    Console_emit([c EXCEPT !.wrapped = @ + 1, !.native = FALSE], "start", <<>>)

\* Lines 178-199: handleFinalRender(error).  With an error the error logs
\* are displayed and 'error' is emitted, without one the logs are displayed;
\* the listeners of 'render' and 'error' are cleared.
Console_handleFinalRender(c, error) ==
    IF error # NoMessage
    THEN [Console_emit([Console_emit(c, "render", <<>>)
                           EXCEPT !.displayed = Append(@, c.errorLogs)],
                       "error", <<error>>)
             EXCEPT !.listening = FALSE]
    ELSE [Console_emit(c, "render", <<>>)
             EXCEPT !.displayed = Append(@, c.logs), !.listening = FALSE]

\* exit() without the test of this.exiting.
Console_exitUnguarded(c, message, code, force) ==
    LET c1 == [c EXCEPT !.exiting = TRUE]
        c2 == IF message # NoMessage /\ force
              THEN [c1 EXCEPT !.errorLogs = @ \o c1.logs, !.logs = <<>>]
              ELSE c1
        c3 == Console_emit(c2, "stop", <<message, code>>)
        c4 == [Console_handleFinalRender(c3, message) EXCEPT !.native = TRUE]
    IN IF force THEN [c4 EXCEPT !.exited = <<code>>]
       ELSE [c4 EXCEPT !.exitCode = <<code>>]

\* Lines 113-153: exit(message, code, force).
Console_exit(c, message, code, force) ==
    IF c.exiting THEN c
    ELSE LET c1 == [c EXCEPT !.exiting = TRUE]
             c2 == IF message # NoMessage /\ force
                   THEN [c1 EXCEPT !.errorLogs = @ \o c1.logs, !.logs = <<>>]
                   ELSE c1
             c3 == Console_emit(c2, "stop", <<message, code>>)
             c4 == [Console_handleFinalRender(c3, message) EXCEPT !.native = TRUE]
         IN IF force THEN [c4 EXCEPT !.exited = <<code>>]
            ELSE [c4 EXCEPT !.exitCode = <<code>>]

\* Lines 169-173: handleFailure(error).
Console_handleFailure(c, error) == Console_exit(Console_start(c), error, 1, TRUE)

\* Lines 217-221: handleSignal().
Console_handleSignal(c) == Console_exit(Console_start(c), TERMINATED, 1, TRUE)

-----------------------------------------------------------------------------
(* Program of @boost/cli.  The state s of a program is the record of its    *)
(* fields (program) and of the call of run() in flight (run).               *)
(* CommandManager, the class it extends, the middleware removeProcessBin    *)
(* and the renderer are not part of the sources at hand: register() is      *)
(* modelled as the two events the program listens to around the addition    *)
(* of the command, a middleware by what it hands to its parse callback, and *)
(* the renderer by whether the render resolves or rejects.  The listeners   *)
(* of the events of the program return normally.                            *)

\* The number of calls of default(), register() and middleware(), and the
\* number of calls of run().
MaxProgramCalls == 3

MaxProgramRuns == 2

EXIT_PASS == 0

EXIT_FAIL == 1

\* The commands: a command is its path and the paths of its sub-commands.
Commandables ==
    { [path |-> "build", commands |-> {"build:all"}],
      [path |-> "install", commands |-> {}] }

\* A middleware is what it does with the argv it receives: it hands it on
\* with a token added, or returns arguments of its own without calling the
\* parse callback.
Middlewares == {"push", "stop"}

\* The argv lists a run is given.
ProgramArgvs ==
    { <<>>, <<"-h">>, <<"build", "-v">>, <<"build">>, <<"node", "bin", "build">> }

\* The fields after the constructor.  commands is the set of paths that are
\* keys of this.commands; thrown is the error the last call threw, '' for
\* none; registered is the list of the commands that register() and
\* default() accepted; calls is the number of calls made.
newProgram ==
    [commands |-> {}, standAlone |-> "", middlewares |-> <<"removeProcessBin">>,
     rendering |-> FALSE, errWrapped |-> FALSE, outWrapped |-> FALSE,
     commandLine |-> <<>>, thrown |-> "", registered |-> <<>>, calls |-> 0]

\* A call that throws: the fields stay as they are.
Program_throw(p, error) == [p EXCEPT !.thrown = error]

\* A handler of onBeforeRegister that lets every command through.
Program_handleBeforeRegisterSilent(p) == ""

\* handleBeforeRegister: the error it throws, '' for none.
Program_handleBeforeRegister(p) ==
    IF p.standAlone # "" THEN "COMMAND_MIXED_DEFAULT" ELSE ""

\* handleAfterRegister: the command and its sub-commands become keys of
\* this.commands.
Program_handleAfterRegister(p, cmd) ==
    [p EXCEPT !.commands = @ \cup {cmd.path} \cup cmd.commands]

\* CommandManager.register(command): onBeforeRegister is emitted, the
\* command is added, onAfterRegister is emitted.
Program_register(p, cmd, by) ==
    IF Program_handleBeforeRegister(p) # ""
    THEN Program_throw(p, Program_handleBeforeRegister(p))
    ELSE [Program_handleAfterRegister(p, cmd)
             EXCEPT !.registered = Append(@, [path |-> cmd.path, by |-> by]),
                    !.thrown = ""]

\* default(command)
Program_default(p, cmd) ==
    IF p.commands # {} THEN Program_throw(p, "COMMAND_MIXED_NONDEFAULT")
    ELSE LET p1 == Program_register(p, cmd, "default")
         IN IF p1.thrown # "" THEN p1 ELSE [p1 EXCEPT !.standAlone = cmd.path]

\* middleware(middleware), for a function.
Program_middleware(p, middleware) ==
    [p EXCEPT !.middlewares = Append(@, middleware), !.thrown = ""]

\* No call of run() in flight, after `runs` calls.  stage is whether the
\* call is in the try or in the catch block of run(); argv is the list the
\* next middleware is handed and index the number of middlewares called;
\* invoked, parsed and emitted are the list of middlewares called, each with
\* the argv it received, the list of argv lists parsed and the list of
\* events emitted; pending is the exit code the render in progress returns.
noProgramRun(runs) ==
    [pc |-> "idle", runs |-> runs, rethrow |-> FALSE, stage |-> "try", given |-> <<>>,
     argv |-> <<>>, index |-> 0, invoked |-> <<>>, parsed |-> <<>>, args |-> "",
     pending |-> EXIT_PASS, error |-> "", emitted |-> <<>>, renders |-> <<>>,
     outcome |-> "none", exitCode |-> EXIT_PASS, thrown |-> ""]

Program_emit(s, event) == [s EXCEPT !.run.emitted = Append(@, event)]

\* run(): the promise of run() is fulfilled with exitCode.
Program_runResolved(s, exitCode) ==
    [s EXCEPT !.run.pc = "settled", !.run.outcome = "resolved",
              !.run.exitCode = exitCode]

\* run(): the promise of run() is rejected with error.
Program_runRejected(s, error) ==
    [s EXCEPT !.run.pc = "settled", !.run.outcome = "rejected", !.run.thrown = error]

\* run(): the call awaited in the try or in the catch block is fulfilled
\* with exitCode.  after-run is emitted, and the error that was caught is
\* thrown again when rethrow is set.
Program_awaitResolved(s, exitCode) ==
    IF s.run.stage = "try"
    THEN Program_runResolved(Program_emit(s, "after-run"), exitCode)
    ELSE IF s.run.rethrow
    THEN Program_runRejected(Program_emit(s, "after-run"), s.run.error)
    ELSE Program_runResolved(Program_emit(s, "after-run"), exitCode)

\* run(): the call awaited is rejected with error.  In the try block the
\* error is caught; in the catch block it rejects run().
Program_awaitRejected(s, error) ==
    IF s.run.stage = "try"
    THEN [s EXCEPT !.run.pc = "catch", !.run.error = error]
    ELSE Program_runRejected(s, error)

\* render(result, exitCode) up to the await of the renderer.  A string is
\* written at once; an element is refused while a render is in progress,
\* and otherwise the buffers are wrapped and rendering is set.
Program_render(s, output, exitCode) ==
    IF output = "string" THEN Program_awaitResolved(s, exitCode)
    ELSE IF s.program.rendering
    THEN Program_awaitRejected(s, "REACT_RENDER_NO_NESTED")
    ELSE [Program_emit(s, "before-render")
             EXCEPT !.program.errWrapped = TRUE, !.program.outWrapped = TRUE,
                    !.program.rendering = TRUE,
                    !.run.pc = "rendering", !.run.pending = exitCode,
                    !.run.renders = Append(@, output)]

\* render() after the renderer has resolved: rendering is reset,
\* after-render is emitted, and the finally block unwraps the buffers.
Program_renderResolved(s) ==
    Program_awaitResolved(
        [Program_emit(s, "after-render")
            EXCEPT !.program.rendering = FALSE,
                   !.program.errWrapped = FALSE, !.program.outWrapped = FALSE],
        s.run.pending)

\* render() after the renderer has rejected: the finally block unwraps the
\* buffers, and the assignment of rendering is not reached.
Program_renderRejected(s, error) ==
    Program_awaitRejected(
        [s EXCEPT !.program.errWrapped = FALSE, !.program.outWrapped = FALSE],
        error)

\* renderErrors(errors): the failure is rendered, with the exit code of a
\* failure.
Program_renderErrors(s, error) == Program_render(s, "Failure", EXIT_FAIL)

\* removeProcessBin: the binary and the script that lead process.argv are
\* removed.
removeProcessBin(nextArgv) ==
    IF Len(nextArgv) > 0 /\ nextArgv[1] = "node" THEN slice(nextArgv, 2) ELSE nextArgv

\* What the middleware hands to its parse callback.
passedOn(middleware, nextArgv) ==
    IF middleware = "removeProcessBin" THEN removeProcessBin(nextArgv)
    ELSE IF middleware = "push" THEN Append(nextArgv, "--all")
    ELSE nextArgv

\* A callback that parses as soon as one middleware has been called.
Program_nextParsesEarly(s) ==
    IF s.run.index < 1
    THEN LET middleware == s.program.middlewares[s.run.index + 1]
             s1 == [s EXCEPT !.run.index = @ + 1,
                             !.run.invoked = Append(@, [middleware |-> middleware,
                                                        argv |-> s.run.argv])]
         IN IF middleware = "stop"
            THEN [s1 EXCEPT !.run.pc = "found", !.run.args = "ok"]
            ELSE [s1 EXCEPT !.run.argv = passedOn(middleware, s.run.argv)]
    ELSE [s EXCEPT !.program.commandLine = s.run.argv,
                   !.run.parsed = Append(@, s.run.argv), !.run.pc = "parse"]

\* applyMiddlewareAndParseArgs: one call of the callback `next`, with the
\* argv the run or the last middleware handed to it.  The next middleware
\* is called; when there is none left the command line is kept and the argv
\* is parsed.
Program_next(s) ==
    IF s.run.index < Len(s.program.middlewares)
    THEN LET middleware == s.program.middlewares[s.run.index + 1]
             s1 == [s EXCEPT !.run.index = @ + 1,
                             !.run.invoked = Append(@, [middleware |-> middleware,
                                                        argv |-> s.run.argv])]
         IN IF middleware = "stop"
            THEN [s1 EXCEPT !.run.pc = "found", !.run.args = "ok"]
            ELSE [s1 EXCEPT !.run.argv = passedOn(middleware, s.run.argv)]
    ELSE [s EXCEPT !.program.commandLine = s.run.argv,
                   !.run.parsed = Append(@, s.run.argv), !.run.pc = "parse"]

\* parse(argv): throws when no command is registered or none is found; else
\* gives the arguments, `outcome` telling whether they hold errors or the
\* help option.
Program_parse(s, outcome) ==
    IF s.program.commands = {}
    THEN Program_awaitRejected(s, "COMMAND_NONE_REGISTERED")
    ELSE IF outcome = "unknown" /\ s.program.standAlone = ""
    THEN Program_awaitRejected(Program_emit(s, "command-not-found"), "COMMAND_UNKNOWN")
    ELSE [s EXCEPT !.run.pc = "found",
                   !.run.args = IF outcome = "unknown" THEN "ok" ELSE outcome]

\* runAndRender() after the arguments were parsed: help, errors, or the run
\* of the command.
Program_commandFound(s) ==
    LET s1 == Program_emit(s, "command-found")
    IN IF s.run.args = "help"
       THEN Program_render(Program_emit(s1, "help"), "Help", EXIT_PASS)
       ELSE IF s.run.args = "errors" THEN Program_renderErrors(s1, "ParseError")
       ELSE [s1 EXCEPT !.run.pc = "command"]

\* runAndRender() up to the arguments: the index and the version are
\* rendered without parsing.
Program_runAndRender(s) ==
    LET given == s.run.given
        showVersion == \E k \in DOMAIN given : given[k] = "-v"
        showHelp == \E k \in DOMAIN given : given[k] = "-h"
    IN IF (Len(given) = 0 /\ s.program.standAlone = "") \/ (Len(given) = 1 /\ showHelp)
       THEN Program_render(Program_emit(s, "help"), "IndexHelp", EXIT_PASS)
       ELSE IF showVersion THEN Program_render(s, "string", EXIT_PASS)
       ELSE [s EXCEPT !.run.pc = "middleware"]

\* run(argv, rethrow) up to its first await.
Program_run(s, given, rethrow) ==
    Program_runAndRender(
        Program_emit([s EXCEPT !.run = [noProgramRun(s.run.runs + 1)
                                           EXCEPT !.given = given, !.argv = given,
                                                  !.rethrow = rethrow]],
                     "before-run"))

\* run(): the catch block.
Program_catch(s) == Program_renderErrors([s EXCEPT !.run.stage = "catch"], s.run.error)

\* The state of the call as a record.
M ==
    [argv |-> argv, cfg |-> cfg, pc |-> pc, i |-> i, options |-> options,
     params |-> params, rest |-> rest, unknown |-> unknown, mapping |-> mapping,
     command |-> command, currentScope |-> currentScope,
     parseErrors |-> parseErrors, validationErrors |-> validationErrors,
     raised |-> raised, trace |-> trace]

\* The state parse(tokens, c) starts in: lines 59-73.
start(tokens, c) ==
    [argv |-> tokens, cfg |-> c, pc |-> "setup", i |-> 1, options |-> EmptyMap,
     params |-> <<>>, rest |-> <<>>, unknown |-> EmptyMap,
     mapping |-> [x \in {} |-> <<>>], command |-> <<>>, currentScope |-> NoScope,
     parseErrors |-> <<>>, validationErrors |-> <<>>, raised |-> 0, trace |-> <<>>]

Become(m) ==
    /\ argv' = m.argv /\ cfg' = m.cfg /\ pc' = m.pc /\ i' = m.i
    /\ options' = m.options /\ params' = m.params /\ rest' = m.rest
    /\ unknown' = m.unknown /\ mapping' = m.mapping /\ command' = m.command
    /\ currentScope' = m.currentScope /\ parseErrors' = m.parseErrors
    /\ validationErrors' = m.validationErrors /\ raised' = m.raised
    /\ trace' = m.trace

NoResult ==
    [command |-> <<>>, errors |-> <<>>, options |-> EmptyMap, optionOrder |-> <<>>,
     params |-> <<>>, rest |-> <<>>, unknown |-> EmptyMap]

\* parse(tokens, c) is called with a token list over tokenSet and parser
\* options of schemaSet.
parseCalled(tokenSet, schemaSet) ==
    /\ \E tokens \in SeqsUpTo(tokenSet, MaxArgs), c \in schemaSet :
           /\ argv = tokens /\ cfg = c
           /\ pc = "setup" /\ i = 1 /\ options = EmptyMap /\ params = <<>>
           /\ rest = <<>> /\ unknown = EmptyMap /\ mapping = [x \in {} |-> <<>>]
           /\ command = <<>> /\ currentScope = NoScope /\ parseErrors = <<>>
           /\ validationErrors = <<>> /\ raised = 0 /\ trace = <<>>
    /\ round = 1
    /\ first = NoResult

\* The other objects of the model, as constructed and left alone.
UnitIdle == unit = newWorkUnit("null") /\ unitRun = noRun(0) /\ now = 1

RoutineIdle == routine = newRoutine /\ routineRun = noRun(0)

SerialIdle == serial = noSerial

ToolIdle == tool = newTool({}, TRUE) /\ files = 1

ArgsIdle == parseCalled({}, {SchemaA})

ConsoleIdle == console = newConsole

ProgramIdle == program = newProgram /\ programRun = noProgramRun(0)

InitFrom(tokenSet, schemaSet) ==
    /\ parseCalled(tokenSet, schemaSet)
    /\ UnitIdle /\ RoutineIdle /\ SerialIdle /\ ToolIdle /\ ConsoleIdle /\ ProgramIdle

Init == InitFrom(Tokens, Schemas)

\* The command lines of short options and short option groups.
InitShort == InitFrom(ShortTokens, ShortSchemas)

\* The command lines, the empty one among them, for the schemas of defaults.
InitDefaults == InitFrom(DefaultTokens, DefaultSchemas)

\* The command lines of values.
InitMultiple == InitFrom(MultipleTokens, MultipleSchemas)

\* The command lines of inline values.
InitInline == InitFrom(InlineTokens, InlineSchemas)

AtArg == pc = "scan" /\ i <= Len(argv)

\* Lines 97-120.
Setup == pc = "setup" /\ Become(setup(M)) /\ UNCHANGED <<round, first, unitVars, routineVars, serialVars, toolVars, consoleVars, programVars>>

\* Lines 129-133.
RestDelimiter ==
    /\ AtArg /\ argv[i] = DASHDASH
    /\ Become(restDelimiter(M)) /\ UNCHANGED <<round, first, unitVars, routineVars, serialVars, toolVars, consoleVars, programVars>>

\* Lines 137-187.
ScanOption ==
    /\ AtArg /\ argv[i] # DASHDASH /\ branchOf(M, argv[i]) = "option"
    /\ Become(loopBody(M)) /\ UNCHANGED <<round, first, unitVars, routineVars, serialVars, toolVars, consoleVars, programVars>>

\* Lines 190-191.
ScanValue ==
    /\ AtArg /\ argv[i] # DASHDASH /\ branchOf(M, argv[i]) = "value"
    /\ Become(loopBody(M)) /\ UNCHANGED <<round, first, unitVars, routineVars, serialVars, toolVars, consoleVars, programVars>>

\* Lines 194-199.
ScanCommand ==
    /\ AtArg /\ argv[i] # DASHDASH /\ branchOf(M, argv[i]) = "command"
    /\ Become(loopBody(M)) /\ UNCHANGED <<round, first, unitVars, routineVars, serialVars, toolVars, consoleVars, programVars>>

\* Lines 202-210.
ScanParam ==
    /\ AtArg /\ argv[i] # DASHDASH /\ branchOf(M, argv[i]) = "param"
    /\ Become(loopBody(M)) /\ UNCHANGED <<round, first, unitVars, routineVars, serialVars, toolVars, consoleVars, programVars>>

\* Lines 219-258, after the loop has ended or "--" has broken out of it.
Finalize ==
    /\ pc = "final" \/ (pc = "scan" /\ i > Len(argv))
    /\ Become(finalize(M)) /\ UNCHANGED <<round, first, unitVars, routineVars, serialVars, toolVars, consoleVars, programVars>>

\* The result is formatted and parsed again with the same parser options.
Reformat ==
    /\ pc = "done" /\ round = 1
    /\ Become(start(format(result(M)), cfg))
    /\ round' = 2
    /\ first' = result(M)
    /\ UNCHANGED <<unitVars, routineVars, serialVars, toolVars, consoleVars, programVars>>

Next ==
    \/ Setup
    \/ RestDelimiter
    \/ ScanOption
    \/ ScanValue
    \/ ScanCommand
    \/ ScanParam
    \/ Finalize

Spec == Init /\ [][Next]_vars

NextRoundTrip == Next \/ Reformat

SpecRoundTrip == Init /\ [][NextRoundTrip]_vars

SpecShort == InitShort /\ [][Next]_vars

SpecDefaults == InitDefaults /\ [][Next]_vars

SpecMultiple == InitMultiple /\ [][Next]_vars

SpecInline == InitInline /\ [][Next]_vars

-----------------------------------------------------------------------------
(* WorkUnit: the calls made on one unit. *)

\* The state of the unit as a record.
U == [unit |-> unit, run |-> unitRun, now |-> now]

BecomeUnit(s) == unit' = s.unit /\ unitRun' = s.run /\ now' = s.now

\* A unit with or without an action, as constructed.
InitWorkUnit ==
    /\ \E action \in {"function", "null"} : unit = newWorkUnit(action)
    /\ unitRun = noRun(0) /\ now = 1
    /\ ArgsIdle /\ RoutineIdle /\ SerialIdle /\ ToolIdle /\ ConsoleIdle /\ ProgramIdle

\* skip(condition), at any time.
UnitSkip ==
    /\ \E condition \in BOOLEAN : unit' = WorkUnit_skip(unit, condition)
    /\ UNCHANGED <<unitRun, now, argsVars, routineVars, serialVars, toolVars, consoleVars, programVars>>

\* run(context, value) is called while no other call is in flight; a
\* listener of onRun bails or none does.
UnitRun ==
    /\ unitRun.pc = "idle" /\ unitRun.runs < MaxRuns
    /\ \E value \in 1..MaxValue, bail \in BOOLEAN : BecomeUnit(WorkUnit_run(U, value, bail))
    /\ UNCHANGED <<argsVars, routineVars, serialVars, toolVars, consoleVars, programVars>>

\* The action resolves.
UnitActionResolves ==
    /\ unitRun.pc = "awaiting"
    /\ \E out \in 1..(2 * MaxValue) : BecomeUnit(WorkUnit_runPassed(U, out))
    /\ UNCHANGED <<argsVars, routineVars, serialVars, toolVars, consoleVars, programVars>>

\* The action throws, or the promise it returned rejects.
UnitActionThrows ==
    /\ unitRun.pc = "awaiting"
    /\ \E error \in Errors : BecomeUnit(WorkUnit_runFailed(U, error))
    /\ UNCHANGED <<argsVars, routineVars, serialVars, toolVars, consoleVars, programVars>>

\* The caller has seen run() settle.
UnitReturn ==
    /\ unitRun.pc = "settled"
    /\ unitRun' = [unitRun EXCEPT !.pc = "idle"]
    /\ UNCHANGED <<unit, now, argsVars, routineVars, serialVars, toolVars, consoleVars, programVars>>

NextWorkUnit ==
    \/ UnitSkip
    \/ UnitRun
    \/ UnitActionResolves
    \/ UnitActionThrows
    \/ UnitReturn

SpecWorkUnit == InitWorkUnit /\ [][NextWorkUnit]_vars

-----------------------------------------------------------------------------
(* Routine: the calls made on one routine, and the 'exit' of its tool. *)

\* The state of the routine as a record.
R == [routine |-> routine, run |-> routineRun]

BecomeRoutine(s) == routine' = s.routine /\ routineRun' = s.run

InitRoutine ==
    /\ routine = newRoutine /\ routineRun = noRun(0)
    /\ ArgsIdle /\ UnitIdle /\ SerialIdle /\ ToolIdle /\ ConsoleIdle /\ ProgramIdle

\* configure(parent), as pipe() calls it.
RoutineConfigure ==
    /\ routine.listeners < MaxConfigures
    /\ routine' = Routine_configure(routine)
    /\ UNCHANGED <<routineRun, argsVars, unitVars, serialVars, toolVars, consoleVars, programVars>>

\* The tool emits 'exit', at any time.
ToolEmitExit ==
    /\ routine.exits < MaxExits
    /\ routine' = Routine_onExit(routine)
    /\ UNCHANGED <<routineRun, argsVars, unitVars, serialVars, toolVars, consoleVars, programVars>>

\* run(value, context) is called while no other call is in flight.
RoutineRun ==
    /\ routineRun.pc = "idle" /\ routineRun.runs < MaxRuns
    /\ \E value \in 1..MaxValue : BecomeRoutine(Routine_run(R, value))
    /\ UNCHANGED <<argsVars, unitVars, serialVars, toolVars, consoleVars, programVars>>

\* execute() resolves.
RoutineExecuteResolves ==
    /\ routineRun.pc = "awaiting"
    /\ \E out \in 1..MaxValue : BecomeRoutine(Routine_runPassed(R, out))
    /\ UNCHANGED <<argsVars, unitVars, serialVars, toolVars, consoleVars, programVars>>

\* execute() rejects.
RoutineExecuteRejects ==
    /\ routineRun.pc = "awaiting"
    /\ \E error \in Errors : BecomeRoutine(Routine_runFailed(R, error))
    /\ UNCHANGED <<argsVars, unitVars, serialVars, toolVars, consoleVars, programVars>>

\* The caller has seen run() settle.
RoutineReturn ==
    /\ routineRun.pc = "settled"
    /\ routineRun' = [routineRun EXCEPT !.pc = "idle"]
    /\ UNCHANGED <<routine, argsVars, unitVars, serialVars, toolVars, consoleVars, programVars>>

NextRoutine ==
    \/ RoutineConfigure
    \/ ToolEmitExit
    \/ RoutineRun
    \/ RoutineExecuteResolves
    \/ RoutineExecuteRejects
    \/ RoutineReturn

SpecRoutine == InitRoutine /\ [][NextRoutine]_vars

-----------------------------------------------------------------------------
(* Routine.serialize(): one call, and the reactions of its promises. *)

InitSerialize ==
    /\ serial = noSerial
    /\ ArgsIdle /\ UnitIdle /\ RoutineIdle /\ ToolIdle /\ ConsoleIdle /\ ProgramIdle

\* serialize(initialValue, items, accumulator) is called; the items are
\* 1, 2, ... in list order.
SerializeCall ==
    /\ serial.pc = "idle"
    /\ \E n \in 0..MaxItems, initialValue \in 1..MaxValue :
           serial' = Routine_serialize(initialValue, [k \in 1..n |-> k])
    /\ UNCHANGED <<argsVars, unitVars, routineVars, toolVars, consoleVars, programVars>>

\* The reaction of a promise whose parent has settled runs.
SerialReact ==
    /\ \E j \in DOMAIN serial.promises : canReact(serial, j) /\ serial' = react(serial, j)
    /\ UNCHANGED <<argsVars, unitVars, routineVars, toolVars, consoleVars, programVars>>

\* A call of the accumulator resolves.
AccumulatorResolves ==
    /\ \E j \in serial.calling, out \in 1..MaxValue :
           serial' = settle(serial, j, Promise_resolve(out))
    /\ UNCHANGED <<argsVars, unitVars, routineVars, toolVars, consoleVars, programVars>>

\* A call of the accumulator throws or rejects.
AccumulatorRejects ==
    /\ \E j \in serial.calling, error \in Errors :
           serial' = settle(serial, j, Promise_reject(error))
    /\ UNCHANGED <<argsVars, unitVars, routineVars, toolVars, consoleVars, programVars>>

NextSerialize ==
    \/ SerializeCall
    \/ SerialReact
    \/ AccumulatorResolves
    \/ AccumulatorRejects

SpecSerialize == InitSerialize /\ [][NextSerialize]_vars

-----------------------------------------------------------------------------
(* Tool: the calls made on one tool, and the files changing under it. *)

\* A tool as constructed, for some argv and extendArgv option; this.console
\* is unset, or set by the caller as the tests of the tool do.
InitTool ==
    /\ \E args \in SUBSET {"--debug", "--silent"}, extendArgv, hasConsole \in BOOLEAN :
           tool = [newTool(args, extendArgv) EXCEPT !.console = hasConsole]
    /\ files \in FileVersions
    /\ ArgsIdle /\ UnitIdle /\ RoutineIdle /\ SerialIdle /\ ConsoleIdle /\ ProgramIdle

\* The tool as a call of `method` finds it.
called(method) ==
    [tool EXCEPT !.thrown = "", !.calls = @ + 1,
                 !.after = IF tool.initialized THEN @ \cup {method} ELSE @]

ToolInitialize ==
    /\ tool.calls < MaxCalls
    /\ tool' = Tool_initialize(called("initialize"), files)
    /\ UNCHANGED <<files, argsVars, unitVars, routineVars, serialVars, consoleVars, programVars>>

ToolLoadConfig ==
    /\ tool.calls < MaxCalls
    /\ tool' = Tool_loadConfig(called("loadConfig"), files)
    /\ UNCHANGED <<files, argsVars, unitVars, routineVars, serialVars, consoleVars, programVars>>

ToolLoadPlugins ==
    /\ tool.calls < MaxCalls
    /\ tool' = Tool_loadPlugins(called("loadPlugins"))
    /\ UNCHANGED <<files, argsVars, unitVars, routineVars, serialVars, consoleVars, programVars>>

ToolLoadReporter ==
    /\ tool.calls < MaxCalls
    /\ tool' = Tool_loadReporter(called("loadReporter"))
    /\ UNCHANGED <<files, argsVars, unitVars, routineVars, serialVars, consoleVars, programVars>>

\* The configuration files and package.json on disk change.
FilesChange ==
    /\ \E version \in FileVersions \ {files} : files' = version
    /\ UNCHANGED <<tool, argsVars, unitVars, routineVars, serialVars, consoleVars, programVars>>

NextTool ==
    \/ ToolInitialize
    \/ ToolLoadConfig
    \/ ToolLoadPlugins
    \/ ToolLoadReporter
    \/ FilesChange

SpecTool == InitTool /\ [][NextTool]_vars

-----------------------------------------------------------------------------
(* Console: the calls made on one console. *)

InitConsole ==
    /\ console = newConsole
    /\ ArgsIdle /\ UnitIdle /\ RoutineIdle /\ SerialIdle /\ ToolIdle /\ ProgramIdle

\* The console after a call of `method` that left it as c.
consoleCalled(c, method) ==
    /\ Len(console.calls) < MaxConsoleCalls
    /\ console' = [c EXCEPT !.calls = Append(@, method)]
    /\ UNCHANGED <<argsVars, unitVars, routineVars, serialVars, toolVars, programVars>>

ConsoleLog ==
    \E message \in Messages : consoleCalled(Console_log(console, message), "log")

ConsoleLogError ==
    \E message \in Messages :
        consoleCalled(Console_logError(console, message), "logError")

ConsoleStart == consoleCalled(Console_start(console), "start")

ConsoleExit ==
    \E message \in ExitMessages, code \in ExitCodes, force \in BOOLEAN :
        consoleCalled(Console_exit(console, message, code, force), "exit")

\* An uncaught exception or an unhandled rejection.
ConsoleHandleFailure ==
    consoleCalled(Console_handleFailure(console, "Error"), "handleFailure")

\* SIGINT or SIGTERM.
ConsoleHandleSignal == consoleCalled(Console_handleSignal(console), "handleSignal")

NextConsole ==
    \/ ConsoleLog
    \/ ConsoleLogError
    \/ ConsoleStart
    \/ ConsoleExit
    \/ ConsoleHandleFailure
    \/ ConsoleHandleSignal

SpecConsole == InitConsole /\ [][NextConsole]_vars

-----------------------------------------------------------------------------
(* Program: the calls made on one program, and the steps of run(). *)

P == [program |-> program, run |-> programRun]

BecomeProgram(s) ==
    /\ program' = s.program /\ programRun' = s.run
    /\ UNCHANGED <<argsVars, unitVars, routineVars, serialVars, toolVars, consoleVars>>

InitProgram ==
    /\ program = newProgram /\ programRun = noProgramRun(0)
    /\ ArgsIdle /\ UnitIdle /\ RoutineIdle /\ SerialIdle /\ ToolIdle /\ ConsoleIdle

\* The program as a call that left it as p finds it.  The commands and the
\* middlewares are registered before the program is run.
programCalled(p) ==
    /\ program.calls < MaxProgramCalls
    /\ programRun.pc = "idle"
    /\ program' = [p EXCEPT !.calls = @ + 1]
    /\ UNCHANGED <<programRun, argsVars, unitVars, routineVars, serialVars, toolVars,
                   consoleVars>>

ProgramDefault ==
    \E cmd \in Commandables : programCalled(Program_default(program, cmd))

\* register(command), for a command whose path is not registered yet.
ProgramRegister ==
    \E cmd \in Commandables :
        /\ cmd.path \notin program.commands
        /\ programCalled(Program_register(program, cmd, "register"))

ProgramMiddleware ==
    \E middleware \in Middlewares :
        programCalled(Program_middleware(program, middleware))

ProgramRun ==
    /\ programRun.pc \in {"idle", "settled"} /\ programRun.runs < MaxProgramRuns
    /\ \E given \in ProgramArgvs, rethrow \in BOOLEAN :
           BecomeProgram(Program_run(P, given, rethrow))

\* The callback `next` is called: by applyMiddlewareAndParseArgs, or by the
\* middleware called last.
ProgramNext == programRun.pc = "middleware" /\ BecomeProgram(Program_next(P))

ProgramParse ==
    /\ programRun.pc = "parse"
    /\ \E outcome \in {"ok", "errors", "help", "unknown"} :
           BecomeProgram(Program_parse(P, outcome))

ProgramCommandFound == programRun.pc = "found" /\ BecomeProgram(Program_commandFound(P))

\* command.run() returns a string or an element.
CommandReturns ==
    /\ programRun.pc = "command"
    /\ \E output \in {"string", "element"} :
           BecomeProgram(Program_render(P, output, EXIT_PASS))

\* command.run() throws.
CommandThrows ==
    /\ programRun.pc = "command"
    /\ BecomeProgram(Program_awaitRejected(P, "Error"))

\* The renderer resolves.
RenderResolves == programRun.pc = "rendering" /\ BecomeProgram(Program_renderResolved(P))

\* The renderer rejects: the element threw while it was rendered.
RenderRejects ==
    /\ programRun.pc = "rendering"
    /\ BecomeProgram(Program_renderRejected(P, "RenderError"))

ProgramCatch == programRun.pc = "catch" /\ BecomeProgram(Program_catch(P))

NextProgram ==
    \/ ProgramDefault
    \/ ProgramRegister
    \/ ProgramMiddleware
    \/ ProgramRun
    \/ ProgramNext
    \/ ProgramParse
    \/ ProgramCommandFound
    \/ CommandReturns
    \/ CommandThrows
    \/ RenderResolves
    \/ RenderRejects
    \/ ProgramCatch

SpecProgram == InitProgram /\ [][NextProgram]_vars

\* parse(tokens, c) as a function: the state the call ends in.
RECURSIVE run(_)
run(m) ==
    IF m.pc \in {"done", "thrown"} THEN m
    ELSE IF m.pc = "setup" THEN run(setup(m))
    ELSE IF m.pc = "final" \/ m.i > Len(m.argv) THEN run(finalize(m))
    ELSE IF m.argv[m.i] = DASHDASH THEN run(restDelimiter(m))
    ELSE run(loopBody(m))

parse(tokens, c) == result(run(start(tokens, c)))

TypeOK ==
    /\ pc \in {"setup", "scan", "final", "done", "thrown"}
    /\ i \in 1..(Len(argv) + 1)
    /\ round \in {1, 2}

-----------------------------------------------------------------------------
(* Properties. *)

\* The number of tokens the loop processes: those before the first "--".
scanned(tokens) ==
    IF indexOf(tokens, DASHDASH) = 0 THEN Len(tokens) ELSE indexOf(tokens, DASHDASH) - 1

\* The validation errors the returned options and params call for, counted
\* from the schema: an arity that is not met, a value that is no choice, a
\* required param that is missing.
validationIssues(c, opts, prms) ==
    Cardinality({n \in DOMAIN c.options :
                    /\ c.options[n].arity # 0 /\ opts[n].t = "array"
                    /\ Len(opts[n].v) \notin {0, c.options[n].arity}})
    + Cardinality({n \in DOMAIN c.options :
                    /\ Len(c.options[n].choices) > 0
                    /\ opts[n] \notin Range(c.options[n].choices)})
    + Cardinality({k \in DOMAIN c.params : c.params[k].required /\ k > Len(prms)})

\* C1: with a schema that has no programmer error parse() never throws, and
\* every error raised during the scan or found by the final checks is in
\* Result.errors: each token whose processing threw has its parse error, with
\* the token and its index, and the result holds as many errors as were
\* raised plus the validation errors the returned options and params call for.
C1_ErrorsAreReturned ==
    /\ pc = "thrown" => setupError(cfg) # ""
    /\ pc \in {"scan", "final", "done"} =>
          /\ Len(parseErrors) = raised
          /\ \A k \in DOMAIN trace :
                trace[k].err # "" =>
                    \E e \in DOMAIN parseErrors :
                        parseErrors[e] = ParseError(trace[k].err, argv[k], k - 1)
    /\ pc = "done" =>
          /\ Len(result(M).errors) = raised + validationIssues(cfg, options, params)
          /\ \A e \in DOMAIN parseErrors : parseErrors[e] \in Range(result(M).errors)
          /\ \A e \in DOMAIN validationErrors :
                validationErrors[e] \in Range(result(M).errors)

\* A parse that returned a parse error and a validation error.
C1_Witness ==
    /\ pc = "done" /\ raised > 0 /\ Len(validationErrors) > 0
    /\ Len(result(M).errors) >= 2

\* A step of the loop during which an error was raised for the token argv[i].
errorStep == raised' > raised

C3_RoundTrip ==
    (round = 2 /\ pc = "done") =>
        /\ result(M).options = first.options
        /\ result(M).params = first.params
        /\ result(M).rest = first.rest

\* C4: when argv holds "--", rest is the tokens after the first one, as they
\* are, and command, options, params, unknown and errors are those of parsing
\* the tokens before it alone; when argv holds no "--", rest is empty.
C4_RestIsolation ==
    pc = "done" =>
        IF indexOf(argv, DASHDASH) = 0
        THEN rest = <<>>
        ELSE /\ rest = SubSeq(argv, indexOf(argv, DASHDASH) + 1, Len(argv))
             /\ [result(M) EXCEPT !.rest = <<>>]
                = parse(SubSeq(argv, 1, indexOf(argv, DASHDASH) - 1), cfg)

\* A "--" after one token, with an option-like token after it.
C4_Witness ==
    /\ pc = "done" /\ indexOf(argv, DASHDASH) = 2
    /\ Len(rest) > 0 /\ isOptionLike(rest[1])
    /\ Len(trace) = 1

\* A step of the loop for an option-like token, taken while a scope is open.
optionStepOnOpenScope ==
    /\ AtArg /\ argv[i] # DASHDASH /\ isOptionLike(argv[i])
    /\ currentScope.open

\* C5: there is one scope at most, none once parse() is done, and a step for
\* an option-like token first commits the scope that was open, whether or not
\* the token is then rejected: an unknown scope is in unknown afterwards, with
\* '' when it captured nothing; the values of a multiple option are in
\* options; a single-value option still open has captured nothing and leaves
\* nothing to write.  The scope open after the step, if any, is that of the
\* new token.
C5_CommitBeforeOption ==
    [][/\ optionStepOnOpenScope =>
             /\ currentScope.unknown =>
                   /\ currentScope.name \in DOMAIN unknown'
                   /\ unknown'[currentScope.name]
                      = (IF currentScope.value = Undefined THEN StrV(<<>>)
                         ELSE StrV(toString(currentScope.value)))
             /\ (~currentScope.unknown /\ currentScope.multiple) =>
                   options'[currentScope.name] = finalValue(currentScope)
             /\ (~currentScope.unknown /\ ~currentScope.multiple) =>
                   currentScope.value = Undefined
             /\ trace'[i].err # "" => ~currentScope'.open
             /\ currentScope'.open =>
                   /\ trace'[i].err = ""
                   /\ currentScope'.multiple =>
                         currentScope'.value.v
                         = (IF "=" \in Range(argv[i])
                            THEN Append(options'[currentScope'.name].v,
                                        StrV(splitLimit(argv[i], "=", 2)[2]))
                            ELSE options'[currentScope'.name].v)
                   /\ ~currentScope'.multiple => currentScope'.value = Undefined
       /\ pc' = "done" => ~currentScope'.open]_vars

\* An option-like token was rejected while a multiple option held a value,
\* and that value is in options.
C5_Witness ==
    \E k \in DOMAIN trace :
        /\ trace[k].branch = "option" /\ trace[k].err = "OPTION_UNKNOWN"
        /\ trace[k].scope.open /\ trace[k].scope.name = N_mu
        /\ trace[k].scope.value = ListV(<<StrV(trace[k - 1].arg)>>)
        /\ options[N_mu] = trace[k].scope.value
        /\ i = k + 1

\* A step of the loop for a plain token, taken while the scope of a known
\* option that is not multiple is open.
singleValueStep ==
    /\ AtArg /\ argv[i] # DASHDASH /\ ~isOptionLike(argv[i])
    /\ currentScope.open /\ ~currentScope.unknown /\ ~currentScope.multiple

\* C6: a known option that is neither boolean nor multiple captures one value:
\* the plain token after it is committed at once, cast to the type of the
\* option, and closes the scope, and a plain token that follows the value is
\* handled as a command or a param.
C6_SingleValue ==
    [][/\ singleValueStep =>
             /\ trace'[i].branch = "value" /\ trace'[i].err = ""
             /\ options' = Put(options, currentScope.name,
                               castValue(StrV(argv[i]),
                                         cfg.options[currentScope.name].type, FALSE))
             /\ ~currentScope'.open
             /\ command' = command /\ params' = params /\ unknown' = unknown
       /\ \A k \in DOMAIN trace' :
             (/\ k > 1 /\ trace'[k - 1].branch = "value"
              /\ ~trace'[k - 1].scope.unknown /\ ~trace'[k - 1].scope.multiple
              /\ ~isOptionLike(trace'[k].arg)) =>
                 trace'[k].branch \in {"command", "param"}]_vars

\* "--nu 7 a" with a param left to fill: nu is 7 and "a" is the param.
C6_Witness ==
    /\ pc = "done" /\ Len(trace) = 3 /\ N_nu \in DOMAIN options
    /\ trace[1].arg = <<"-","-">> \o N_nu /\ trace[2].branch = "value"
    /\ options[N_nu] = NumV(7)
    /\ trace[3].branch = "param" /\ params[1] = StrV(trace[3].arg)

\* The plain tokens that follow argv[k], up to the next option-like token,
\* "--" or the end: the number of them.
RECURSIVE plainRun(_, _)
plainRun(tokens, k) ==
    IF k >= Len(tokens) THEN 0
    ELSE IF isOptionLike(tokens[k + 1]) \/ tokens[k + 1] = DASHDASH THEN 0
    ELSE 1 + plainRun(tokens, k + 1)

\* C7: for the multiple option mu, every plain token after "--mu" up to the
\* next option-like token, "--" or the end is taken as a value, none of them
\* as a command or a param, and in the end options.mu holds them one after the
\* other in the order of the tokens, whatever the arity of mu.
C7_MultipleCapturesAll ==
    pc = "done" =>
        \A k \in DOMAIN argv :
            (k <= scanned(argv) /\ argv[k] = <<"-","-">> \o N_mu) =>
                /\ \A d \in 1..plainRun(argv, k) : trace[k + d].branch = "value"
                /\ \E off \in 0..Len(options[N_mu].v) :
                      /\ off + plainRun(argv, k) <= Len(options[N_mu].v)
                      /\ \A d \in 1..plainRun(argv, k) :
                            options[N_mu].v[off + d] = StrV(argv[k + d])

\* "--mu" with more plain tokens after it than the arity of mu, a command
\* name among them, all of them in options.mu.
C7_Witness ==
    /\ pc = "done" /\ Len(argv) = MaxArgs /\ argv[1] = <<"-","-">> \o N_mu
    /\ plainRun(argv, 1) = Len(argv) - 1
    /\ plainRun(argv, 1) > cfg.options[N_mu].arity
    /\ argv[2] = CMD_go /\ isCommand(argv[2], cfg.commands)
    /\ options[N_mu].v = [d \in 1..plainRun(argv, 1) |-> StrV(argv[d + 1])]
    /\ command = <<>>

\* The long option that no schema declares, and its name.
N_gh == <<"g","h">>
LongUnknown == <<"-","-">> \o N_gh

\* The last token "--gh" that the loop has processed, 0 if there is none.
lastUnknown ==
    IF \E k \in DOMAIN trace : trace[k].arg = LongUnknown
    THEN CHOOSE k \in DOMAIN trace :
             /\ trace[k].arg = LongUnknown
             /\ \A j \in DOMAIN trace : trace[j].arg = LongUnknown => j <= k
    ELSE 0

\* C8: for the long option "--gh", which is in no schema: when unknown options
\* are not allowed, each "--gh" has one parse error, OPTION_UNKNOWN with the
\* token and its index, and gh is a key of neither options nor unknown; when
\* they are allowed, no "--gh" has an error, gh is a key of unknown only, and
\* in the end unknown.gh is the string that the last "--gh" captured: the plain
\* token after it, '' if there is none.
C8_UnknownLongOption ==
    /\ \A k \in DOMAIN trace :
          trace[k].arg = LongUnknown =>
              /\ N_gh \notin DOMAIN options
              /\ IF cfg.unknown
                 THEN /\ trace[k].err = ""
                      /\ \A e \in DOMAIN parseErrors : parseErrors[e].index # k - 1
                 ELSE /\ trace[k].err = "OPTION_UNKNOWN"
                      /\ Cardinality({e \in DOMAIN parseErrors :
                                         parseErrors[e].index = k - 1}) = 1
                      /\ ParseError("OPTION_UNKNOWN", LongUnknown, k - 1)
                         \in Range(parseErrors)
                      /\ N_gh \notin DOMAIN unknown
    /\ (pc = "done" /\ cfg.unknown /\ lastUnknown > 0) =>
          /\ N_gh \in DOMAIN unknown
          /\ unknown[N_gh]
             = (IF plainRun(argv, lastUnknown) > 0
                THEN StrV(argv[lastUnknown + 1]) ELSE StrV(<<>>))

\* "--gh 7" with unknown options allowed: unknown.gh is the string '7'.
C8_WitnessAllowed ==
    /\ pc = "done" /\ cfg.unknown /\ lastUnknown > 0
    /\ plainRun(argv, lastUnknown) > 0
    /\ unknown[N_gh] = StrV(<<"7">>) /\ Len(parseErrors) = 0

\* "--gh" in both modes: rejected with one error when unknown options are
\* not allowed.
C8_Witness ==
    /\ pc = "done" /\ lastUnknown > 0 /\ ~cfg.unknown
    /\ Len(parseErrors) = 1 /\ parseErrors[1].code = "OPTION_UNKNOWN"
    /\ Len(trace) > lastUnknown

\* C9: no name is a key of both options and unknown: the keys of options are
\* the names of the schema, the keys of unknown are names that the schema
\* does not have, and unknown is empty when unknown options are not allowed.
C9_OptionsUnknownDisjoint ==
    pc \in {"scan", "final", "done"} =>
        /\ DOMAIN options \cap DOMAIN unknown = {}
        /\ DOMAIN options = DOMAIN cfg.options
        /\ DOMAIN unknown \cap DOMAIN cfg.options = {}
        /\ ~cfg.unknown => DOMAIN unknown = {}
        /\ DOMAIN result(M).options \cap DOMAIN result(M).unknown = {}

\* A result with an unknown option and a known option that was given a value.
C9_Witness ==
    /\ pc = "done" /\ cfg.unknown /\ DOMAIN unknown = {N_gh}
    /\ N_nu \in DOMAIN options /\ options[N_nu] = NumV(7)

\* The place in the trace of the token that became the command, 0 if none.
commandAt ==
    IF \E k \in DOMAIN trace : trace[k].branch = "command" /\ trace[k].err = ""
    THEN CHOOSE k \in DOMAIN trace :
             /\ trace[k].branch = "command" /\ trace[k].err = ""
             /\ \A j \in 1..(k - 1) : ~(trace[j].branch = "command" /\ trace[j].err = "")
    ELSE 0

laterCommandStep ==
    /\ AtArg /\ argv[i] # DASHDASH /\ ~isOptionLike(argv[i])
    /\ ~currentScope.open /\ isCommand(argv[i], cfg.commands)
    /\ command # <<>>

\* C11 as stated: once there is a command, a later plain token that matches
\* the commands is handled as a param: it goes to params, or is rejected as
\* one param too many, and the command is unchanged.
C11_AsStated ==
    [][laterCommandStep =>
          /\ command' = command
          /\ \/ Len(params') = Len(params) + 1
             \/ trace'[i].err = "PARAM_UNKNOWN"]_vars

\* C11, amended: once there is a command, a later plain token that matches
\* the commands is looked up as a command again: it takes the command branch,
\* does not change the command, and is left out of params, options and
\* unknown; it opens no scope.
C11_LaterCommandIgnored ==
    [][laterCommandStep =>
          /\ trace'[i].branch = "command"
          /\ command' = command
          /\ params' = params /\ options' = options /\ unknown' = unknown
          /\ ~currentScope'.open
          /\ trace'[i].err # "PARAM_UNKNOWN"]_vars

\* The command twice, then a plain token: one command, one param.
C11_Witness ==
    /\ pc = "done" /\ Len(trace) = 3
    /\ trace[1].branch = "command" /\ trace[2].branch = "command"
    /\ trace[2].arg = command /\ trace[3].branch = "param"
    /\ Len(params) = 1 /\ params[1] = StrV(trace[3].arg)

\* A step of the loop for a plain token that is neither a value nor a
\* command, taken when every declared param has its value.
extraParamStep ==
    /\ AtArg /\ argv[i] # DASHDASH /\ branchOf(M, argv[i]) = "param"
    /\ Len(params) >= Len(cfg.params)

\* The tokens that were taken as params, in the order of the tokens.
paramTokens(tr) == SelectSeq(tr, LAMBDA e : e.branch = "param" /\ e.err = "")

\* C12: when variadic is off, params never has more entries than the schema
\* declares params, and a plain token beyond them is rejected with a parse
\* error and leaves params as it is; when variadic is on, that token is
\* appended as the string it is, and in the end the entries beyond the
\* declared params are the strings of the tokens, in the order of the tokens.
C12_VariadicParams ==
    [][/\ extraParamStep =>
             IF cfg.variadic
             THEN /\ params' = Append(params, StrV(argv[i]))
                  /\ trace'[i].err = ""
             ELSE /\ params' = params
                  /\ trace'[i].err = "PARAM_UNKNOWN"
                  /\ parseErrors' = Append(parseErrors,
                                           ParseError("PARAM_UNKNOWN", argv[i], i - 1))
       /\ ~cfg.variadic => Len(params') <= Len(cfg.params)
       /\ (pc' = "done" /\ cfg.variadic) =>
             \A k \in DOMAIN params' :
                 k > Len(cfg.params) =>
                     /\ k <= Len(paramTokens(trace'))
                     /\ params'[k] = StrV(paramTokens(trace')[k].arg)]_vars

\* Variadic off: both declared params have their value and a third plain
\* token was rejected.
C12_Witness ==
    /\ pc = "done" /\ ~cfg.variadic /\ Len(cfg.params) = 2 /\ Len(params) = 2
    /\ Len(trace) = 3 /\ trace[3].branch = "param"
    /\ trace[3].err = "PARAM_UNKNOWN"
    /\ parseErrors = <<ParseError("PARAM_UNKNOWN", argv[3], 2)>>

\* Variadic on: a boolean param is declared, and the two tokens after it are
\* in params as strings, a number among them.
C12_WitnessVariadic ==
    /\ pc = "done" /\ cfg.variadic /\ Len(cfg.params) = 1 /\ Len(params) = 3
    /\ params[1].t = "boolean" /\ params[2] = StrV(<<"7">>)
    /\ params[3] = StrV(argv[3])

\* C13 as stated: after the loop the slots that are filled are only slots
\* that declare a default and are not required, each with its default, and
\* no slot at or after the first required slot left unfilled is filled.
C13_AsStated ==
    [][pc' = "done" =>
          /\ SubSeq(params', 1, Len(params)) = params
          /\ \A k \in (Len(params) + 1)..Len(params') :
                /\ ~cfg.params[k].required
                /\ cfg.params[k].default # Undefined
                /\ params'[k] = cfg.params[k].default
          /\ \/ Len(params') >= Len(cfg.params)
             \/ cfg.params[Len(params') + 1].required]_vars

\* C13, amended: after the loop the unfilled slots are filled from left to
\* right, each slot that is not required with the value of getDefaultValue
\* for it, which is its default when it declares one; filling stops at the
\* first unfilled slot that is required, and nothing is pushed for that slot
\* or a slot after it.  The params from the tokens stay as they are, in front.
C13_FillMissingParams ==
    [][pc' = "done" =>
          /\ SubSeq(params', 1, Len(params)) = params
          /\ \A k \in (Len(params) + 1)..Len(params') :
                /\ k <= Len(cfg.params)
                /\ ~cfg.params[k].required
                /\ params'[k] = getDefaultValue(cfg.params[k])
                /\ cfg.params[k].default # Undefined =>
                      params'[k] = cfg.params[k].default
          /\ \/ Len(params') >= Len(cfg.params)
             \/ cfg.params[Len(params') + 1].required]_vars

\* Filling has stopped at a required slot, and the slot after it, which
\* declares a default, is left unfilled.
C13_Witness ==
    /\ pc = "done" /\ Len(params) = 0 /\ Len(cfg.params) = 2
    /\ cfg.params[1].required
    /\ ~cfg.params[2].required /\ cfg.params[2].default # Undefined

\* The second slot was filled with its default, after the param from a token.
C13_WitnessFilled ==
    /\ pc = "done" /\ Len(paramTokens(trace)) = 1 /\ Len(params) = 2
    /\ params[2] = cfg.params[2].default /\ params[1] = StrV(paramTokens(trace)[1].arg)

\* The place of a validation error in the final checks: that of its option
\* in the schema, and after all options for a param.
checkRank(c, e) ==
    IF e.option = <<>> THEN Len(c.order) + 1
    ELSE CHOOSE k \in DOMAIN c.order : c.order[k] = e.option

\* C14: in the errors of the result every parse error comes before every
\* validation error; the parse errors are in the order of their tokens, and
\* the validation errors in the order of the final checks: the options in
\* the order of the schema, then the params.
C14_ErrorOrder ==
    pc = "done" =>
        /\ Len(result(M).errors) = Len(parseErrors) + Len(validationErrors)
        /\ \A a, b \in DOMAIN result(M).errors :
              a < b =>
                  /\ ~(/\ result(M).errors[a].kind = "validation"
                       /\ result(M).errors[b].kind = "parse")
                  /\ (/\ result(M).errors[a].kind = "parse"
                      /\ result(M).errors[b].kind = "parse") =>
                         result(M).errors[a].index < result(M).errors[b].index
                  /\ (/\ result(M).errors[a].kind = "validation"
                      /\ result(M).errors[b].kind = "validation") =>
                         checkRank(cfg, result(M).errors[a])
                         <= checkRank(cfg, result(M).errors[b])

\* Two parse errors and then two validation errors, for an option and for a
\* param.
C14_Witness ==
    /\ pc = "done" /\ Len(result(M).errors) = 4
    /\ result(M).errors[1].kind = "parse" /\ result(M).errors[2].kind = "parse"
    /\ result(M).errors[3].code = "VALUE_INVALID_CHOICE"
    /\ result(M).errors[4].code = "PARAM_REQUIRED"

\* Two options of the schema declare the same short name.
hasDuplicateShort(c) ==
    \E a, b \in DOMAIN c.options :
        a # b /\ c.options[a].short # NoShort /\ c.options[a].short = c.options[b].short

\* A required param of the schema declares a default.
hasRequiredDefault(c) ==
    \E k \in DOMAIN c.params : c.params[k].required /\ c.params[k].default # Undefined

C15_WitnessRequiredDefault ==
    /\ pc = "thrown" /\ hasRequiredDefault(cfg) /\ ~hasDuplicateShort(cfg)
    /\ Len(argv) = MaxArgs /\ i = 1

\* tokens with the token at k, which is "--name=v", replaced by "--name", v.
spaced(tokens, k) ==
    SubSeq(tokens, 1, k - 1)
    \o <<splitLimit(tokens[k], "=", 2)[1], splitLimit(tokens[k], "=", 2)[2]>>
    \o SubSeq(tokens, k + 1, Len(tokens))

\* tokens with the tokens at k and k + 1, "--name" and v, replaced by "--name=v".
inlined(tokens, k) ==
    SubSeq(tokens, 1, k - 1)
    \o <<tokens[k] \o <<"=">> \o tokens[k + 1]>>
    \o SubSeq(tokens, k + 2, Len(tokens))

\* The errors with the index of each parse error after the token at k moved
\* up by d: the errors of the list in which that token is d tokens more.
reindexed(errs, k, d) ==
    [e \in DOMAIN errs |->
        IF errs[e].kind = "parse" /\ errs[e].index >= k
        THEN [errs[e] EXCEPT !.index = @ + d] ELSE errs[e]]

\* "--x=v" for a known single-value number or string option x and a value v
\* that is not option-like.
isInlineSingle(c, tok) ==
    /\ "=" \in Range(tok) /\ isLongOption(splitLimit(tok, "=", 2)[1])
    /\ slice(splitLimit(tok, "=", 2)[1], 2) \in DOMAIN c.options
    /\ c.options[slice(splitLimit(tok, "=", 2)[1], 2)].type \in {"number", "string"}
    /\ ~c.options[slice(splitLimit(tok, "=", 2)[1], 2)].multiple
    /\ ~isOptionLike(splitLimit(tok, "=", 2)[2])

\* "--x" for such an option, followed by a plain token without "=".
isSpacedSingle(c, tokens, k) ==
    /\ k < Len(tokens) /\ isLongOption(tokens[k]) /\ "=" \notin Range(tokens[k])
    /\ slice(tokens[k], 2) \in DOMAIN c.options
    /\ c.options[slice(tokens[k], 2)].type \in {"number", "string"}
    /\ ~c.options[slice(tokens[k], 2)].multiple
    /\ ~isOptionLike(tokens[k + 1]) /\ tokens[k + 1] # DASHDASH
    /\ "=" \notin Range(tokens[k + 1])

C16_WitnessInline ==
    /\ pc = "done" /\ Len(argv) = 1 /\ isInlineSingle(cfg, argv[1])
    /\ options[N_st] = StrV(<<"7">>)

\* A short option group whose letters are all short names of flags of c.
isFlagGroup(c, tok) ==
    /\ isShortOptionGroup(tok)
    /\ \A j \in 2..Len(tok) :
          \E n \in DOMAIN c.options :
              c.options[n].short = tok[j] /\ c.options[n].type = "boolean"

\* tokens with the group at k replaced by one short option for each letter.
ungrouped(tokens, k) ==
    SubSeq(tokens, 1, k - 1)
    \o [j \in 1..(Len(tokens[k]) - 1) |-> <<"-", tokens[k][j + 1]>>]
    \o SubSeq(tokens, k + 1, Len(tokens))

\* C17: a group of short names of flags gives the result of the short
\* options one by one, alone and among other tokens, the index of the errors
\* of later tokens apart; and no short option group opens a scope, so that a
\* plain token after it is handled as a command or a param.
C17_ShortGroupExpansion ==
    /\ pc = "done" =>
          \A k \in 1..scanned(argv) :
              isFlagGroup(cfg, argv[k]) =>
                  /\ [parse(ungrouped(argv, k), cfg) EXCEPT !.errors = <<>>]
                     = [result(M) EXCEPT !.errors = <<>>]
                  /\ parse(ungrouped(argv, k), cfg).errors
                     = reindexed(result(M).errors, k, Len(argv[k]) - 2)
    /\ \A k \in DOMAIN trace :
          isShortOptionGroup(trace[k].arg) =>
              IF k < Len(trace)
              THEN /\ ~trace[k + 1].scope.open
                   /\ ~isOptionLike(trace[k + 1].arg) =>
                         trace[k + 1].branch \in {"command", "param"}
              ELSE pc \in {"scan", "final"} => ~currentScope.open

\* "-cq a": both flags are set and "a" is a param.
C17_Witness ==
    /\ pc = "done" /\ Len(argv) = 2 /\ isFlagGroup(cfg, argv[1])
    /\ argv[1] = <<"-","c","q">>
    /\ options[N_co] = BoolV(TRUE) /\ options[N_qu] = BoolV(TRUE)
    /\ trace[2].branch = "param" /\ params = <<StrV(argv[2])>>
    /\ Len(result(M).errors) = 0

\* The short name of the counter, and a group that repeats it.
ShortCount == "v"

isCountGroup(c, tok) ==
    /\ isShortOptionGroup(tok)
    /\ \A j \in 2..Len(tok) : tok[j] = ShortCount
    /\ N_ve \in DOMAIN c.options
    /\ c.options[N_ve].short = ShortCount /\ c.options[N_ve].count
    /\ c.options[N_ve].type = "number"

\* The number of times the first n tokens repeat the counter in a group.
RECURSIVE countRepeats(_, _, _)
countRepeats(c, tokens, n) ==
    IF n = 0 THEN 0
    ELSE countRepeats(c, tokens, n - 1)
         + (IF isCountGroup(c, tokens[n]) THEN Len(tokens[n]) - 1 ELSE 0)

\* C18: a group that repeats the short name of the counter n times, n >= 2,
\* adds n to the counter and raises no error; when no other token gives the
\* counter a value, the result holds the default of the counter plus the
\* repeats of all groups: 3 for "-vvv" and the default 0.
C18_CounterAccumulation ==
    [][/\ (AtArg /\ isCountGroup(cfg, argv[i])) =>
             /\ options' = Put(options, N_ve, NumV(options[N_ve].v + Len(argv[i]) - 1))
             /\ trace'[i].err = ""
             /\ ~currentScope'.open
       /\ (/\ pc' = "done"
           /\ \A k \in 1..scanned(argv) :
                 isCountGroup(cfg, argv[k]) \/ ~isOptionLike(argv[k])) =>
             options'[N_ve]
             = NumV(cfg.options[N_ve].default.v
                    + countRepeats(cfg, argv, scanned(argv)))]_vars

\* "-vvv" alone with the default 0: the counter is 3.
C18_Witness ==
    /\ pc = "done" /\ argv = <<<<"-","v","v","v">>>>
    /\ cfg.options[N_ve].default = NumV(0)
    /\ options[N_ve] = NumV(3) /\ Len(result(M).errors) = 0

\* "-vv" and "-vvv" with the default 2: the counter is 7.
C18_WitnessDefault ==
    /\ pc = "done" /\ Len(argv) >= 2 /\ isCountGroup(cfg, argv[1])
    /\ isCountGroup(cfg, argv[2]) /\ argv[1] # argv[2]
    /\ cfg.options[N_ve].default = NumV(2)
    /\ options[N_ve] = NumV(7)

\* "--name" or "--no-name" for a flag of c, without inline value.
isLongFlag(c, tok) ==
    /\ isLongOption(tok) /\ "=" \notin Range(tok)
    /\ LET name == slice(tok, 2)
       IN \/ name \in DOMAIN c.options /\ c.options[name].type = "boolean"
          \/ /\ startsWith(name, <<"n","o","-">>)
             /\ slice(name, 3) \in DOMAIN c.options
             /\ c.options[slice(name, 3)].type = "boolean"

\* The flag that "--name" or "--no-name" names, and the value it gives it.
flagName(tok) ==
    IF startsWith(slice(tok, 2), <<"n","o","-">>) THEN slice(tok, 5) ELSE slice(tok, 2)

flagValue(tok) == BoolV(~startsWith(slice(tok, 2), <<"n","o","-">>))

\* C19: "--name" sets a known flag to true and "--no-name" sets it to false,
\* with no error and without opening a scope, so that a plain token after it
\* is handled as a command or a param and the flag keeps the value.
C19_FlagOpensNoScope ==
    [][/\ (AtArg /\ isLongFlag(cfg, argv[i])) =>
             /\ options'[flagName(argv[i])] = flagValue(argv[i])
             /\ ~currentScope'.open
             /\ trace'[i].err = "" /\ parseErrors' = parseErrors
             /\ params' = params /\ command' = command
       /\ (/\ AtArg /\ i > 1 /\ isLongFlag(cfg, argv[i - 1])
           /\ ~isOptionLike(argv[i]) /\ argv[i] # DASHDASH) =>
             /\ trace'[i].branch \in {"command", "param"}
             /\ options' = options]_vars

\* "--co --no-co" and a plain token: co is false and the token is a param.
C19_Witness ==
    /\ pc = "done" /\ Len(trace) = 3
    /\ trace[1].arg = <<"-","-">> \o N_co
    /\ trace[2].arg = <<"-","-","n","o","-">> \o N_co
    /\ options[N_co] = BoolV(FALSE)
    /\ trace[3].branch = "param" /\ Len(parseErrors) = 0
    /\ params[1] = castValue(StrV(trace[3].arg), cfg.params[1].type, FALSE)

\* The scanned positions of tokens that name the multiple option mu, with or
\* without an inline value.
muTokens(tokens) ==
    {k \in 1..scanned(tokens) :
        \/ tokens[k] = <<"-","-">> \o N_mu
        \/ startsWith(tokens[k], <<"-","-">> \o N_mu \o <<"=">>)}

\* The number of values that the token at k and the plain tokens after it
\* give to mu.
muCaptured(tokens, k) ==
    (IF "=" \in Range(tokens[k]) THEN 1 ELSE 0) + plainRun(tokens, k)

\* The validation errors of the arity of mu.
arityErrors(errs) ==
    Cardinality({j \in DOMAIN errs : errs[j] = ValidationError("VALUE_ARITY_UNMET", N_mu)})

\* C20: with k the number of values in options.mu and n the arity of mu, the
\* result has exactly one arity error for mu when k > 0 and k # n, and none
\* when k = 0 or k = n; and when mu is named once, k is the number of values
\* given to it, be it below or above n.
C20_ArityEnforcement ==
    (pc = "done" /\ N_mu \in DOMAIN cfg.options) =>
        /\ arityErrors(validationErrors)
           = IF Len(options[N_mu].v) \in {0, cfg.options[N_mu].arity} THEN 0 ELSE 1
        /\ \A k \in muTokens(argv) :
              muTokens(argv) = {k} => Len(options[N_mu].v) = muCaptured(argv, k)

\* Arity 2 and one value: one arity error.
C20_Witness ==
    /\ pc = "done" /\ cfg.options[N_mu].arity = 2
    /\ muTokens(argv) = {1} /\ muCaptured(argv, 1) = 1
    /\ Len(options[N_mu].v) = 1
    /\ validationErrors = <<ValidationError("VALUE_ARITY_UNMET", N_mu)>>

\* Arity 2 and two values: no error.
C20_WitnessMet ==
    /\ pc = "done" /\ cfg.options[N_mu].arity = 2
    /\ muTokens(argv) = {1} /\ muCaptured(argv, 1) = 2
    /\ Len(options[N_mu].v) = 2 /\ arityErrors(validationErrors) = 0

\* Arity 1 and two values: both captured, one arity error.
C20_WitnessAbove ==
    /\ pc = "done" /\ cfg.options[N_mu].arity = 1
    /\ muTokens(argv) = {1} /\ muCaptured(argv, 1) = 2
    /\ Len(options[N_mu].v) = 2 /\ arityErrors(validationErrors) = 1

\* mu named and no value: no error.
C20_WitnessNone ==
    /\ pc = "done" /\ cfg.options[N_mu].arity = 2
    /\ muTokens(argv) = {1} /\ muCaptured(argv, 1) = 0
    /\ Len(options[N_mu].v) = 0 /\ arityErrors(validationErrors) = 0

\* Every option and every param of c declares a default.
allDefaultsDeclared(c) ==
    /\ \A name \in DOMAIN c.options : c.options[name].default # Undefined
    /\ \A k \in DOMAIN c.params : c.params[k].default # Undefined

\* The declared defaults of c pass the checks made of the final values: a
\* default is one of the choices, and a default of a multiple option with an
\* arity is empty or has as many values as the arity.
defaultsAdmissible(c) ==
    \A name \in DOMAIN c.options :
        LET config == c.options[name]
        IN /\ Len(config.choices) > 0 => config.default \in Range(config.choices)
           /\ (config.multiple /\ config.arity # 0) =>
                 Len(config.default.v) \in {0, config.arity}

\* The result is the declared defaults of c and nothing else.
onlyDefaults(c, res) ==
    /\ res.options = [name \in DOMAIN c.options |-> c.options[name].default]
    /\ res.params = [k \in DOMAIN c.params |-> c.params[k].default]
    /\ res.command = <<>> /\ res.rest = <<>> /\ res.unknown = EmptyMap
    /\ res.errors = <<>>

C21_WitnessChoice ==
    /\ pc = "done" /\ argv = <<>> /\ cfg = SchemaJ
    /\ validationErrors = <<ValidationError("VALUE_INVALID_CHOICE", N_st)>>

\* The token argv[i] is a short option whose letter no option declares.
unknownShortStep ==
    /\ AtArg /\ isShortOption(argv[i]) /\ ~canExpandShortOption(argv[i][2], mapping)

\* C22: a short option whose letter no option declares as short adds one
\* parse error for the token and leaves no scope open, whether unknown options
\* are allowed or not; options and unknown are what the commit of the scope
\* that was open before leaves, with no entry for the letter.
C22_UnknownShortOption ==
    [][unknownShortStep =>
          /\ Len(parseErrors') = Len(parseErrors) + 1
          /\ parseErrors'[Len(parseErrors')].arg = argv[i]
          /\ parseErrors'[Len(parseErrors')].index = i - 1
          /\ trace'[i].branch = "option" /\ trace'[i].err # ""
          /\ ~currentScope'.open
          /\ options' = commitScope(M).options
          /\ unknown' = commitScope(M).unknown
          /\ slice(argv[i], 1) \notin DOMAIN unknown' \cup DOMAIN options'
          /\ params' = params /\ command' = command]_vars

\* Unknown options are allowed, "-z" is followed by a plain token: the error
\* is there, unknown is empty and the token is a param.
C22_Witness ==
    /\ pc = "done" /\ cfg.unknown /\ Len(argv) = 2
    /\ argv[1] = <<"-","z">> /\ ~isOptionLike(argv[2]) /\ argv[2] # CMD_go
    /\ Len(parseErrors) = 1 /\ parseErrors[1].arg = argv[1]
    /\ unknown = EmptyMap /\ Len(params) > 0
    /\ trace[2].branch = "param"

\* The token gives the multiple option mu an inline value.
isInlineMultiple(tok) == startsWith(tok, <<"-","-">> \o N_mu \o <<"=">>)

\* C23: after "--mu=a" for the multiple option mu no scope is open and the
\* value is in options.mu, and a plain token that follows is handled as a
\* command or a param and leaves options.mu as it is.
C23_InlineClosesScope ==
    [][/\ (AtArg /\ isInlineMultiple(argv[i])) =>
             /\ ~currentScope'.open
             /\ options'[N_mu].v = Append(options[N_mu].v, StrV(slice(argv[i], 5)))
       /\ (/\ AtArg /\ i > 1 /\ isInlineMultiple(argv[i - 1])
           /\ ~isOptionLike(argv[i]) /\ argv[i] # DASHDASH) =>
             /\ trace'[i].branch \in {"command", "param"}
             /\ options'[N_mu] = options[N_mu]]_vars

\* What the code does instead: "--mu=a" leaves the scope of mu open with the
\* value in it, and a plain token that follows is captured as one more value.
C23_InlineKeepsScopeOpen ==
    [][/\ (AtArg /\ isInlineMultiple(argv[i])) =>
             /\ currentScope'.open /\ currentScope'.name = N_mu
             /\ currentScope'.value.v[Len(currentScope'.value.v)] = StrV(slice(argv[i], 5))
       /\ (/\ AtArg /\ i > 1 /\ isInlineMultiple(argv[i - 1])
           /\ ~isOptionLike(argv[i]) /\ argv[i] # DASHDASH) =>
             /\ trace'[i].branch = "value"
             /\ currentScope'.value.v = Append(currentScope.value.v, StrV(argv[i]))]_vars

\* "--mu=a" and a plain token: both are in options.mu and there is no param.
C23_Witness ==
    /\ pc = "done" /\ Len(argv) = 2 /\ isInlineMultiple(argv[1])
    /\ ~isOptionLike(argv[2]) /\ argv[2] # DASHDASH
    /\ options[N_mu] = ListV(<<StrV(slice(argv[1], 5)), StrV(argv[2])>>)
    /\ params = fillMissingParams(<<>>, cfg.params) /\ command = <<>>

\* The inline values of the tokens 1..n, all of them "--mu=value".
RECURSIVE inlineValues(_, _)
inlineValues(tokens, n) ==
    IF n = 0 THEN <<>>
    ELSE Append(inlineValues(tokens, n - 1), StrV(slice(tokens[n], 5)))

\* C24: each "--mu=value" for the multiple option mu appends its value to the
\* values the occurrences before it gave, so that a command line of such
\* tokens alone ends with options.mu holding their values in token order.
C24_RepeatedInlineAppends ==
    [][/\ (AtArg /\ isInlineMultiple(argv[i])) =>
             /\ currentScope'.name = N_mu
             /\ currentScope'.value.v
                = Append(commitScope(M).options[N_mu].v, StrV(slice(argv[i], 5)))
             /\ trace'[i].err = ""
       /\ (/\ pc' = "done" /\ scanned(argv) > 0
           /\ \A k \in 1..scanned(argv) : isInlineMultiple(argv[k])) =>
             options'[N_mu] = ListV(inlineValues(argv, scanned(argv)))]_vars

\* "--mu=a --mu=7" gives [a, 7] and "--mu=7 --mu=a" gives [7, a].
C24_Witness ==
    /\ pc = "done" /\ Len(argv) = 2
    /\ isInlineMultiple(argv[1]) /\ isInlineMultiple(argv[2]) /\ argv[1] # argv[2]
    /\ options[N_mu] = ListV(<<StrV(slice(argv[1], 5)), StrV(slice(argv[2], 5))>>)
    /\ Len(parseErrors) = 0

\* The number a plain token of the model is cast to: its value when it is a
\* run of digits, 0 otherwise.
numberOf(tok) == IF isDigits(tok) THEN digitsToNat(tok) ELSE 0

\* The token argv[i] is captured by the open scope of the number option nu.
numberValueStep ==
    /\ AtArg /\ argv[i] # DASHDASH /\ branchOf(M, argv[i]) = "value"
    /\ currentScope.name = N_nu /\ ~currentScope.unknown

\* The token argv[i] takes the next param slot, which is of the given type.
paramStepOfType(type) ==
    /\ AtArg /\ argv[i] # DASHDASH /\ branchOf(M, argv[i]) = "param"
    /\ Len(params) < Len(cfg.params)
    /\ cfg.params[Len(params) + 1].type = type

\* C25: a value given to the number option nu or to a number param is the
\* number it spells, and 0 when it spells none; a value given to a boolean
\* param is true for true, on, yes and 1 and false for anything else; the
\* step records no error of either kind and parse() does not throw.
C25_CastNeverFails ==
    [][/\ numberValueStep =>
             /\ options'[N_nu] = NumV(numberOf(argv[i]))
             /\ parseErrors' = parseErrors /\ validationErrors' = validationErrors
             /\ trace'[i].err = "" /\ pc' = "scan"
       /\ paramStepOfType("number") =>
             /\ params' = Append(params, NumV(numberOf(argv[i])))
             /\ parseErrors' = parseErrors /\ validationErrors' = validationErrors
             /\ trace'[i].err = "" /\ pc' = "scan"
       /\ paramStepOfType("boolean") =>
             /\ params' = Append(params, BoolV(argv[i] \in TrueStrings))
             /\ parseErrors' = parseErrors /\ validationErrors' = validationErrors
             /\ trace'[i].err = "" /\ pc' = "scan"]_vars

\* "--nu a": nu is 0 and there is no error.
C25_Witness ==
    /\ pc = "done" /\ argv = << <<"-","-">> \o N_nu, <<"a">> >>
    /\ N_nu \in DOMAIN options /\ options[N_nu] = NumV(0)
    /\ Len(parseErrors) = 0 /\ Len(validationErrors) = 0

\* A boolean param given "a" is false, given "1" it is true; no error.
C25_WitnessBoolean ==
    /\ pc = "done" /\ Len(argv) = 1 /\ cfg.params[1].type = "boolean"
    /\ argv[1] = <<"a">> /\ params = <<BoolV(FALSE)>>
    /\ Len(parseErrors) = 0 /\ Len(validationErrors) = 0

C25_WitnessTrue ==
    /\ pc = "done" /\ Len(argv) = 1 /\ cfg.params[1].type = "boolean"
    /\ argv[1] = <<"1">> /\ params = <<BoolV(TRUE)>>

\* A number param given "a" is 0.
C25_WitnessParam ==
    /\ pc = "done" /\ Len(argv) = 2 /\ Len(cfg.params) = 2
    /\ cfg.params[2].type = "number" /\ argv[2] = <<"a">>
    /\ Len(params) = 2 /\ params[2] = NumV(0) /\ Len(parseErrors) = 0

\* The last event the call of run() in flight has emitted.
lastEmitted(r) == r.emitted[Len(r.emitted)]

\* C26: when run() has settled the status is passed, failed or skipped,
\* never pending or running.  When the action resolved, the status is passed,
\* the output of the unit is the result of the action and run() resolves with
\* it; when the action threw, the status is failed and run() rejects with the
\* error thrown.  In both cases startTime and stopTime are set.
C26_RunSettles ==
    [][/\ unitRun'.pc = "settled" =>
             unit'.status \in {STATUS_PASSED, STATUS_FAILED, STATUS_SKIPPED}
       /\ (unitRun.pc = "awaiting" /\ unitRun'.outcome = "resolved") =>
             /\ unit'.status = STATUS_PASSED
             /\ lastEmitted(unitRun') = <<"pass", unit'.output>>
             /\ unitRun'.result = unit'.output /\ unit'.output # NoOutput
             /\ unit'.startTime # 0 /\ unit'.stopTime # 0
       /\ (unitRun.pc = "awaiting" /\ unitRun'.outcome = "rejected") =>
             /\ unit'.status = STATUS_FAILED
             /\ lastEmitted(unitRun') = <<"fail", unitRun'.error>>
             /\ unitRun'.error \in Errors /\ unit'.output = unit.output
             /\ unit'.startTime # 0 /\ unit'.stopTime # 0
       /\ (unitRun.pc = "awaiting" /\ unitRun'.pc # "awaiting") =>
             unitRun'.pc = "settled" /\ unitRun'.outcome \in {"resolved", "rejected"}]_vars

\* A run that passed, and after it a run that failed.
C26_Witness ==
    /\ unitRun.pc = "settled" /\ unitRun.runs = 2
    /\ unit.status = STATUS_FAILED /\ unitRun.outcome = "rejected"
    /\ unitRun.error = "Oops" /\ unit.output # NoOutput
    /\ unit.startTime > 1 /\ unit.stopTime > unit.startTime

\* A run that passed.
C26_WitnessPassed ==
    /\ unitRun.pc = "settled" /\ unit.status = STATUS_PASSED
    /\ unitRun.outcome = "resolved" /\ unitRun.result = unit.output
    /\ unit.output = 2 * unitRun.value

\* A step that is a call of run().
runCalled == unitRun.pc = "idle" /\ unitRun'.runs = unitRun.runs + 1

\* C27: a call of run() on a unit that is skipped or has no action, or during
\* which a listener of onRun bails, does not call the action, sets the status
\* to skipped, emits onSkip after onRun and nothing else, and resolves with
\* the value it was given; the other fields of the unit stay as they are.
C27_SkippedRun ==
    [][(/\ runCalled
        /\ WorkUnit_isSkipped(unit) \/ unit.action = "null" \/ unitRun'.bail) =>
          /\ ~unitRun'.invoked
          /\ unit' = [unit EXCEPT !.status = STATUS_SKIPPED]
          /\ unitRun'.emitted = << <<"run", unitRun'.value>>, <<"skip", unitRun'.value>> >>
          /\ unitRun'.pc = "settled" /\ unitRun'.outcome = "resolved"
          /\ unitRun'.result = unitRun'.value
          /\ now' = now]_vars

\* A unit with an action that was pending: a listener bailed, and the run is
\* settled with the value given.
C27_Witness ==
    /\ unitRun.pc = "settled" /\ unitRun.runs = 1 /\ unitRun.bail
    /\ unit.action = "function" /\ unit.status = STATUS_SKIPPED
    /\ unitRun.result = unitRun.value /\ unit.startTime = 0

\* A unit without action, no bail.
C27_WitnessNoAction ==
    /\ unitRun.pc = "settled" /\ ~unitRun.bail /\ unit.action = "null"
    /\ unit.status = STATUS_SKIPPED /\ unitRun.result = unitRun.value

\* A unit that passed, was skipped by skip() and was run again.
C27_WitnessSkipped ==
    /\ unitRun.pc = "settled" /\ unitRun.runs = 2 /\ ~unitRun.bail
    /\ unit.action = "function" /\ unit.output # NoOutput
    /\ unit.status = STATUS_SKIPPED /\ ~unitRun.invoked
    /\ unitRun.result = unitRun.value

\* A step that is a call of run() on the routine.
routineRunCalled == routineRun.pc = "idle" /\ routineRun'.runs = routineRun.runs + 1

\* C28: an 'exit' of the tool that comes after configure() sets the exit flag
\* of the routine; the flag, once true, stays true; and a call of run() made
\* while it is true rejects with 'Process has been interrupted.', does not
\* call the action and leaves the status and the other fields as they are.
C28_ExitInterrupts ==
    [][/\ (routine'.exits > routine.exits /\ routine.listeners > 0) => routine'.exit
       /\ routine.exit => routine'.exit
       /\ (routineRunCalled /\ routine.exit) =>
             /\ routineRun'.pc = "settled" /\ routineRun'.outcome = "rejected"
             /\ routineRun'.error = INTERRUPTED
             /\ routine' = routine]_vars

\* The routine has passed once, the tool has emitted 'exit', and the next
\* run was rejected: the status is still passed.
C28_Witness ==
    /\ routine.exit /\ routine.exits = 1 /\ routine.listeners > 0
    /\ routineRun.pc = "settled" /\ routineRun.runs = 2
    /\ routineRun.outcome = "rejected" /\ routineRun.error = INTERRUPTED
    /\ routine.status = STATUS_PASSED /\ routine.executed = 1

\* An 'exit' that came before configure() is not heard.
C28_WitnessUnheard ==
    /\ routine.exits > 0 /\ ~routine.exit /\ routine.listeners > 0
    /\ routineRun.pc = "settled" /\ routineRun.outcome = "resolved"

\* C29: the k-th call of the accumulator is for the k-th item and gets the
\* value the call before it resolved with, the first one the initial value;
\* a call is made only when every call before it has resolved, so at most
\* one is in flight; once a call has rejected no further call is made and
\* the promise returned rejects with the same reason; without items the
\* promise returned is resolved with the initial value, and when every call
\* has resolved it is resolved with the value of the last one.
C29_SerializeInOrder ==
    serial.pc = "chained" =>
        /\ Cardinality(serial.calling) <= 1
        /\ Len(serial.calls) <= Len(serial.items)
        /\ \A k \in DOMAIN serial.calls :
              /\ serial.calls[k].item = serial.items[k]
              /\ serial.calls[k].value = serial.promises[k].value
              /\ \A j \in 1..k : serial.promises[j].state = "fulfilled"
              /\ k + 1 \in serial.calling \/ serial.promises[k + 1].state # "pending"
        /\ serial.promises[1] = Promise_resolve(serial.initialValue)
        /\ \A j \in DOMAIN serial.promises :
              serial.promises[j].state = "rejected" =>
                 /\ Len(serial.calls) < j
                 /\ \A k \in DOMAIN serial.promises :
                       k > j => serial.promises[k] \in {Promise_pending, serial.promises[j]}
        /\ returned(serial).state = "fulfilled" => Len(serial.calls) = Len(serial.items)

\* Three items, every call resolved: the promise returned is resolved with
\* the value of the last call.
C29_Witness ==
    /\ serial.pc = "chained" /\ Len(serial.items) = MaxItems
    /\ Len(serial.calls) = MaxItems /\ serial.calling = {}
    /\ returned(serial).state = "fulfilled"
    /\ serial.calls[2].value # serial.initialValue
    /\ serial.calls[3].value # serial.calls[2].value

\* The call for the first of three items rejected: one call, and the promise
\* returned is rejected with its reason.
C29_WitnessRejected ==
    /\ serial.pc = "chained" /\ Len(serial.items) = MaxItems
    /\ Len(serial.calls) = 1 /\ serial.calling = {}
    /\ returned(serial) = Promise_reject("Oops")

\* No items: the promise returned is resolved with the initial value.
C29_WitnessEmpty ==
    /\ serial.pc = "chained" /\ Len(serial.items) = 0
    /\ returned(serial) = Promise_resolve(serial.initialValue)

\* C30: a call of initialize(), loadConfig(), loadPlugins() or loadReporter()
\* on a tool that is initialized returns without throwing and leaves config,
\* package, plugins and reporter, and the tool being initialized, as they
\* are, whatever is on disk by then.
C30_InitializedIsFrozen ==
    [][tool.initialized =>
          /\ tool'.initialized
          /\ tool'.config = tool.config /\ tool'.package = tool.package
          /\ tool'.plugins = tool.plugins /\ tool'.reporter = tool.reporter
          /\ tool'.thrown = ""]_vars

\* The tool was initialized, the files have changed since, and each of the
\* four methods has been called after that: the tool holds what the first
\* version of the files gave.
C30_Witness ==
    /\ tool.initialized /\ tool.calls = MaxCalls
    /\ tool.after = {"initialize", "loadConfig", "loadPlugins", "loadReporter"}
    /\ files = 2 /\ tool.package = ConfigLoader_loadPackageJSON(1)
    /\ tool.config.foo = 1 /\ tool.plugins = <<1, 2, 3>> /\ tool.reporter = "native"

-----------------------------------------------------------------------------
(* C33 *)

\* The step on "--": the loop is left at argv[i] = "--".
restStep == pc = "scan" /\ i <= Len(argv) /\ argv[i] = DASHDASH

\* The step after "--" broke out of the loop with the scope of a declared
\* option open.
restCommitStep == pc = "final" /\ currentScope.open /\ ~currentScope.unknown

\* C33: when "--" is reached the token itself is captured nowhere: params,
\* options, unknown and the open scope are as they were and rest is the
\* tokens after it.  The scope that was open is then committed with what it
\* captured: a multiple option keeps its values, an option without a value
\* keeps what options held for it, which is its default when no earlier
\* token named it.
C33_RestCommitsScope ==
    [][/\ restStep =>
            /\ pc' = "final"
            /\ rest' = slice(argv, i)
            /\ params' = params /\ options' = options /\ unknown' = unknown
            /\ currentScope' = currentScope
       /\ restCommitStep =>
            /\ pc' = "done"
            /\ ~currentScope'.open
            /\ rest' = rest
            /\ unknown' = unknown
            /\ options'[currentScope.name] =
                   IF currentScope.value # Undefined THEN finalValue(currentScope)
                   ELSE options[currentScope.name]
            /\ (currentScope.value = Undefined /\ i = 2) =>
                   options'[currentScope.name] =
                       getDefaultValue(cfg.options[currentScope.name])
            /\ \A n \in DOMAIN options \ {currentScope.name} : options'[n] = options[n]]_vars

\* "--mu a --": the multiple option keeps the value it captured.
C33_Witness ==
    /\ pc = "done" /\ Len(argv) = 3 /\ argv[3] = DASHDASH
    /\ argv[1] = <<"-","-","m","u">> /\ argv[2] = <<"a">>
    /\ options[N_mu] = ListV(<<StrV(<<"a">>)>>)
    /\ rest = <<>> /\ params = <<>>

\* "--nu -- a": the number option keeps its default and a is in rest.
C33_WitnessDefault ==
    /\ pc = "done" /\ Len(argv) = 3 /\ argv[2] = DASHDASH
    /\ argv[1] = <<"-","-","n","u">> /\ N_nu \in DOMAIN options
    /\ options[N_nu] = DEFAULT_NUMBER_VALUE
    /\ rest = <<argv[3]>>

-----------------------------------------------------------------------------
(* C34 *)

\* tok is "--name=value" or "--no-name=value" for a flag of the schema c.
isInlineFlag(c, tok) ==
    /\ "=" \in Range(tok)
    /\ isLongFlag(c, splitLimit(tok, "=", 2)[1])

\* C34: "--name=value" for a known flag records one parse error,
\* VALUE_NO_INLINE with the token and its index, and the flag is set all the
\* same, from the name alone: true, or false after "no-".  No scope is open
\* afterwards, and nothing else changes but what the commit of the scope
\* that was open wrote.
C34_InlineFlag ==
    [][(AtArg /\ isInlineFlag(cfg, argv[i])) =>
          LET name == splitLimit(argv[i], "=", 2)[1]
          IN /\ parseErrors'
                  = Append(parseErrors, ParseError("VALUE_NO_INLINE", argv[i], i - 1))
             /\ options' = Put(commitScope(M).options, flagName(name), flagValue(name))
             /\ options'[flagName(name)] = BoolV(~startsWith(name, <<"-","-","n","o","-">>))
             /\ unknown' = commitScope(M).unknown
             /\ ~currentScope'.open
             /\ params' = params /\ command' = command]_vars

\* "--no-co=1" after "--co": one error and co is false in the end.
C34_Witness ==
    /\ pc = "done" /\ Len(argv) = 2
    /\ argv[1] = <<"-","-","c","o">>
    /\ argv[2] = <<"-","-","n","o","-","c","o","=","1">>
    /\ options[N_co] = BoolV(FALSE)
    /\ parseErrors = <<ParseError("VALUE_NO_INLINE", argv[2], 1)>>

\* "--co=1" alone: one error and co is true.
C34_WitnessTrue ==
    /\ pc = "done" /\ argv = << <<"-","-","c","o","=","1">> >>
    /\ options[N_co] = BoolV(TRUE)
    /\ Len(parseErrors) = 1

-----------------------------------------------------------------------------
(* C35 *)

\* The step on a plain token that follows "--gh", which no schema declares,
\* when unknown options are not allowed.
afterRejectedStep ==
    /\ AtArg /\ i > 1 /\ argv[i - 1] = LongUnknown /\ ~cfg.unknown
    /\ ~isOptionLike(argv[i]) /\ argv[i] # DASHDASH

\* C35: when unknown options are not allowed, the rejected option leaves no
\* scope open, and the plain token after it is a command or a param: it
\* changes neither options nor unknown, and a token that is no command is
\* pushed to params, cast to the type of its slot, or is refused as a param
\* too many.
C35_RejectedOpensNoScope ==
    [][/\ (AtArg /\ argv[i] = LongUnknown /\ ~cfg.unknown) =>
             /\ trace'[i].err = "OPTION_UNKNOWN"
             /\ ~currentScope'.open
             /\ DOMAIN unknown' = {}
       /\ afterRejectedStep =>
             /\ trace'[i].branch \in {"command", "param"}
             /\ options' = options /\ unknown' = unknown
             /\ ~currentScope'.open
             /\ ~isCommand(argv[i], cfg.commands) =>
                   IF Len(params) < Len(cfg.params)
                   THEN params' = Append(params,
                                         castValue(StrV(argv[i]),
                                                   cfg.params[Len(params) + 1].type, FALSE))
                   ELSE IF cfg.variadic
                   THEN params' = Append(params, StrV(argv[i]))
                   ELSE params' = params /\ trace'[i].err = "PARAM_UNKNOWN"]_vars

\* "--gh a": one error for --gh, and a is the param.
C35_Witness ==
    /\ pc = "done" /\ ~cfg.unknown
    /\ argv = << LongUnknown, <<"a">> >>
    /\ params = <<StrV(<<"a">>)>>
    /\ Len(parseErrors) = 1 /\ parseErrors[1].code = "OPTION_UNKNOWN"
    /\ DOMAIN unknown = {}

-----------------------------------------------------------------------------
(* C36 *)

\* The counter named by its short name alone.
LoneCount == <<"-", ShortCount>>

\* C36: "-v" alone does not increment the counter: it leaves options as they
\* are and opens the scope of the counter without error, and the plain token
\* after it is taken as the value of the counter, cast to a number.  "-v -v
\* -v" therefore leaves the counter at its default, which is not what "-vvv"
\* gives.
C36_LoneCounterOpensScope ==
    [][/\ (AtArg /\ argv[i] = LoneCount) =>
             /\ options' = options
             /\ trace'[i].err = ""
             /\ currentScope'.open /\ currentScope'.name = N_ve
             /\ currentScope'.value = Undefined
       /\ (/\ AtArg /\ i > 1 /\ argv[i - 1] = LoneCount
           /\ ~isOptionLike(argv[i]) /\ argv[i] # DASHDASH) =>
             /\ trace'[i].branch = "value"
             /\ options' = Put(options, N_ve, NumV(stringToNumber(argv[i])))
             /\ params' = params /\ command' = command
             /\ ~currentScope'.open
       /\ (pc' = "done" /\ argv = <<LoneCount, LoneCount, LoneCount>>) =>
             /\ options'[N_ve] = cfg.options[N_ve].default
             /\ parse(<<<<"-","v","v","v">>>>, cfg).options[N_ve]
                = NumV(cfg.options[N_ve].default.v + 3)
             /\ options' # parse(<<<<"-","v","v","v">>>>, cfg).options]_vars

\* "-v -v -v": the counter is at its default, 0.
C36_Witness ==
    /\ pc = "done" /\ argv = <<LoneCount, LoneCount, LoneCount>>
    /\ cfg.options[N_ve].default = NumV(0)
    /\ options[N_ve] = NumV(0) /\ Len(result(M).errors) = 0

\* "-v 7": the counter is 7.
C36_WitnessValue ==
    /\ pc = "done" /\ argv = <<LoneCount, <<"7">> >>
    /\ options[N_ve] = NumV(7) /\ params = <<>>

-----------------------------------------------------------------------------
(* C39 *)

\* "--name" without inline value, for a name that is no flag of c.
isBareOption(c, tok) ==
    /\ isLongOption(tok) /\ "=" \notin Range(tok) /\ tok # DASHDASH
    /\ ~isLongFlag(c, tok)

\* The option that the token names.
nameOf(tok) ==
    IF "=" \in Range(tok) THEN flagName(splitLimit(tok, "=", 2)[1]) ELSE flagName(tok)

\* The step that commits the scope of the option at argv[i - 1], which has
\* captured nothing: the next token is an option, or the loop has ended,
\* at "--" or at the end of the input.
emptyCommitStep ==
    /\ i > 1 /\ i - 1 <= Len(argv) /\ isBareOption(cfg, argv[i - 1])
    /\ \/ pc = "final"
       \/ pc = "scan" /\ i > Len(argv)
       \/ pc = "scan" /\ i <= Len(argv) /\ isOptionLike(argv[i]) /\ argv[i] # DASHDASH

\* Whether the step writes the option at argv[i - 1] by itself: its token
\* names the same option.
sameOptionAgain ==
    pc = "scan" /\ i <= Len(argv) /\ nameOf(argv[i]) = nameOf(argv[i - 1])

\* C39 as stated: after the commit of the empty scope of a declared option,
\* options[name] is the default of the option.
C39_AsStated ==
    [][(/\ emptyCommitStep /\ nameOf(argv[i - 1]) \in DOMAIN cfg.options
        /\ ~sameOptionAgain) =>
          options'[nameOf(argv[i - 1])]
          = getDefaultValue(cfg.options[nameOf(argv[i - 1])])]_vars

\* C39: the commit of the empty scope of a declared option leaves
\* options[name] as it was: at its default when no earlier token named the
\* option, at the value an earlier token gave it otherwise.  The empty scope
\* of an undeclared option, when unknown options are allowed, is stored in
\* unknown as the empty string, and not in options.
C39_EmptyScopeCommit ==
    [][emptyCommitStep =>
          LET name == nameOf(argv[i - 1])
          IN IF name \in DOMAIN cfg.options
             THEN /\ currentScope.open /\ currentScope.name = name
                  /\ ~sameOptionAgain => options'[name] = options[name]
                  /\ (\A k \in 1..(i - 2) : nameOf(argv[k]) # name) =>
                        /\ options[name] = getDefaultValue(cfg.options[name])
                        /\ ~sameOptionAgain =>
                              options'[name] = getDefaultValue(cfg.options[name])
                  /\ unknown' = unknown
             ELSE /\ name \notin DOMAIN options'
                  /\ IF cfg.unknown
                     THEN name \in DOMAIN unknown' /\ unknown'[name] = StrV(<<>>)
                     ELSE name \notin DOMAIN unknown']_vars

\* "--nu 7 --nu": the second --nu has no value and nu stays 7, which is not
\* its default.
C39_Witness ==
    /\ pc = "done"
    /\ argv = << <<"-","-">> \o N_nu, <<"7">>, <<"-","-">> \o N_nu >>
    /\ options[N_nu] = NumV(7)
    /\ getDefaultValue(cfg.options[N_nu]) = NumV(0)

\* "--st --gh --" with unknown options allowed: st has its default and
\* unknown.gh is ''.
C39_WitnessUnknown ==
    /\ pc = "done" /\ cfg.unknown
    /\ argv = << <<"-","-">> \o N_st, LongUnknown, DASHDASH >>
    /\ options[N_st] = StrV(<<"a">>)
    /\ unknown[N_gh] = StrV(<<>>)

-----------------------------------------------------------------------------
(* C40 *)

\* The string option st with an inline value that holds a "=".
InlineEquals == <<"-","-","s","t","=","a","=","b">>

\* C40: the inline value of "--name=value" is all the text after the first
\* "=": the step on "--st=a=b" sets st to 'a=b'.
C40_InlineValueAfterFirstEquals ==
    [][(AtArg /\ argv[i] = InlineEquals) =>
          options'[N_st] = StrV(slice(InlineEquals, indexOf(InlineEquals, "=")))]_vars

\* What parse() does: arg.split('=', 2) keeps the first two pieces and drops
\* the rest, so the step on "--st=a=b" sets st to 'a'.
C40_InlineValueTruncated ==
    [][(AtArg /\ argv[i] = InlineEquals) =>
          /\ options'[N_st] = StrV(<<"a">>)
          /\ trace'[i].err = "" /\ ~currentScope'.open]_vars

\* "--st=a=b" alone: st is 'a' and there is no error.
C40_Witness ==
    /\ pc = "done" /\ argv = <<InlineEquals>>
    /\ options[N_st] = StrV(<<"a">>)
    /\ Len(result(M).errors) = 0

-----------------------------------------------------------------------------
(* C37 *)

\* The number of events `event` the console has emitted.
emittedCount(c, event) ==
    Cardinality({k \in DOMAIN c.emitted : c.emitted[k].event = event})

\* The step is a call of exit(), handleSignal() or handleFailure().
exitCalled ==
    /\ Len(console'.calls) = Len(console.calls) + 1
    /\ console'.calls[Len(console'.calls)] \in {"exit", "handleSignal", "handleFailure"}

\* C37: the shutdown of exit() runs once at most.  A call of exit(),
\* handleSignal() or handleFailure() on a console that is exiting emits no
\* 'stop', 'render' or 'error', displays no logs, and leaves logs,
\* errorLogs, process.exitCode and the code given to exit() as they are;
\* the first call on a console that is not exiting emits one 'stop' and
\* displays once.
C37_ExitOnce ==
    [][exitCalled =>
          IF console.exiting
          THEN /\ console'.exiting
               /\ emittedCount(console', "stop") = emittedCount(console, "stop")
               /\ emittedCount(console', "render") = emittedCount(console, "render")
               /\ emittedCount(console', "error") = emittedCount(console, "error")
               /\ console'.displayed = console.displayed
               /\ console'.logs = console.logs
               /\ console'.errorLogs = console.errorLogs
               /\ console'.exitCode = console.exitCode
               /\ console'.exited = console.exited
               /\ emittedCount(console', "stop") = 1
          ELSE /\ console'.exiting
               /\ emittedCount(console, "stop") = 0
               /\ emittedCount(console', "stop") = 1
               /\ Len(console'.displayed) = 1]_vars

\* exit(null, 2) and then a signal: one 'stop', one display, and the exit
\* code is still 2.
C37_Witness ==
    /\ console.calls = <<"log", "exit", "handleSignal">>
    /\ console.exiting
    /\ emittedCount(console, "stop") = 1
    /\ Len(console.displayed) = 1 /\ Len(console.displayed[1]) = 1
    /\ console.exitCode = <<2>> /\ console.exited = <<>>
    /\ console.logs # <<>> /\ console.errorLogs = <<>>

-----------------------------------------------------------------------------
(* C31 *)

\* The step is a call of default() or register().
registerCalled ==
    /\ program'.calls = program.calls + 1
    /\ program'.middlewares = program.middlewares

\* C31: a program is stand-alone or multi-command, never both.  When
\* standAlone is set, the one command that register() and default() have
\* accepted is the default command, and the keys of commands are its path
\* and the paths of its sub-commands; default() throws once there is a
\* command, register() throws once there is a default command, and a call
\* that throws changes neither commands nor standAlone.
C31_StandAloneOrCommands ==
    [][/\ program'.standAlone # "" =>
             /\ program'.registered
                = <<[path |-> program'.standAlone, by |-> "default"]>>
             /\ \E cmd \in Commandables :
                   /\ cmd.path = program'.standAlone
                   /\ program'.commands = {cmd.path} \cup cmd.commands
       /\ (registerCalled /\ program.standAlone # "") =>
             /\ program'.thrown \in {"COMMAND_MIXED_DEFAULT", "COMMAND_MIXED_NONDEFAULT"}
             /\ program'.commands = program.commands
             /\ program'.standAlone = program.standAlone
             /\ program'.registered = program.registered
       /\ (registerCalled /\ program.commands # {} /\ program'.thrown = "") =>
             /\ program.standAlone = "" /\ program'.standAlone = ""
             /\ Len(program'.registered) = Len(program.registered) + 1
             /\ program'.registered[Len(program'.registered)].by = "register"]_vars

\* default(build) and then register(install): the second call has thrown,
\* and build, with its sub-command, is the only command.
C31_Witness ==
    /\ program.standAlone = "build" /\ program.calls = 2
    /\ program.thrown = "COMMAND_MIXED_DEFAULT"
    /\ program.commands = {"build", "build:all"}
    /\ program.middlewares = <<"removeProcessBin">>

\* register(install) and then default(build): default() has thrown and the
\* program is multi-command.
C31_WitnessMixed ==
    /\ program.standAlone = "" /\ program.calls = 2
    /\ program.thrown = "COMMAND_MIXED_NONDEFAULT"
    /\ program.commands = {"install"}

-----------------------------------------------------------------------------
(* C32 *)

C32_WitnessStop ==
    /\ program.middlewares = <<"removeProcessBin", "stop", "push">>
    /\ Len(programRun.invoked) = 2 /\ programRun.parsed = <<>>
    /\ programRun.pc = "settled"

-----------------------------------------------------------------------------
(* C38 *)

\* The number of events `event` the call of run() has emitted.
runEmitted(event) ==
    Cardinality({k \in DOMAIN programRun.emitted : programRun.emitted[k] = event})

\* C38: rendering is true only while a render is in progress: once render()
\* has settled, resolved or rejected, rendering is false and both buffers
\* are unwrapped; and a run that has settled has emitted after-run once.
C38_RenderingOnlyWhileRendering ==
    /\ programRun.pc # "rendering" =>
          /\ ~program.rendering
          /\ ~program.errWrapped /\ ~program.outWrapped
    /\ programRun.pc = "settled" => runEmitted("after-run") = 1

\* What render() does: the buffers are unwrapped whenever no render is in
\* progress, and rendering is reset when the renderer resolves only.  Once
\* a render has rejected, rendering stays true: the render of the failure
\* in the catch block of run() is refused, run() is rejected with
\* REACT_RENDER_NO_NESTED and after-run is not emitted.
C38_RenderingStaysSet ==
    [][/\ programRun'.pc # "rendering" =>
             ~program'.errWrapped /\ ~program'.outWrapped
       /\ (programRun.pc = "rendering" /\ programRun'.pc = "catch") =>
             program'.rendering
       /\ (programRun.pc = "catch" /\ program.rendering) =>
             /\ programRun'.pc = "settled" /\ programRun'.outcome = "rejected"
             /\ programRun'.thrown = "REACT_RENDER_NO_NESTED"
             /\ programRun'.emitted = programRun.emitted
             /\ program'.rendering
       /\ program.rendering => program'.rendering \/ programRun.pc = "rendering"
       /\ programRun'.pc = "settled" => runEmitted("after-run")' <= 1]_vars

\* The render of what the command returned has rejected: run() is rejected
\* with REACT_RENDER_NO_NESTED, the failure was not rendered, after-run was
\* not emitted and rendering is still true.
C38_Witness ==
    /\ programRun.pc = "settled" /\ programRun.outcome = "rejected"
    /\ programRun.thrown = "REACT_RENDER_NO_NESTED"
    /\ programRun.error = "RenderError"
    /\ programRun.renders = <<"element">>
    /\ runEmitted("after-run") = 0
    /\ program.rendering

=============================================================================
